---- MODULE Spec2Model ----
(***************************************************************************)
(* Model of the Excel AI Modifier backend: header detection and column     *)
(* resolution (app/utils/excel_utils.py), table extent and clearing        *)
(* (app/utils/formatting_utils.py), the format-preserving rewrite          *)
(* (app/services/excel_service.py) and the export request                  *)
(* (app/routes/excel.py).                                                  *)
(*                                                                         *)
(* Python strings are sequences of one-character strings, so that upper(), *)
(* strip(), split(), replace() and the substring test are computed and not *)
(* assumed.  A Python value is a record: None, a str or a number.          *)
(***************************************************************************)
EXTENDS Integers, Sequences, FiniteSets, TLC

(***************************************************************************)
(* Python values and string primitives                                     *)
(***************************************************************************)
PyNone == [t |-> "none", s |-> <<>>, n |-> 0]
Str(s) == [t |-> "str", s |-> s, n |-> 0]
Num(n) == [t |-> "num", s |-> <<>>, n |-> n]
PyNaN == [t |-> "nan", s |-> <<>>, n |-> 0]

LowerChars == <<"a","b","c","d","e","f","g","h","i","j","k","l","m","n","o","p","q","r","s","t","u","v","w","x","y","z">>
UpperChars == <<"A","B","C","D","E","F","G","H","I","J","K","L","M","N","O","P","Q","R","S","T","U","V","W","X","Y","Z">>
DigitChars == <<"0","1","2","3","4","5","6","7","8","9">>
Whitespace == {" ", "\t"}

\* the upper- and lower-case partner of each cased character
ToUpper == [c \in {LowerChars[i] : i \in 1..26} |->
               UpperChars[CHOOSE i \in 1..26 : LowerChars[i] = c]]
ToLower == [c \in {UpperChars[i] : i \in 1..26} |->
               LowerChars[CHOOSE i \in 1..26 : UpperChars[i] = c]]

IsLower(c) == c \in DOMAIN ToUpper
IsUpper(c) == c \in DOMAIN ToLower
IsCased(c) == IsLower(c) \/ IsUpper(c)

UpChar(c) == IF IsLower(c) THEN ToUpper[c] ELSE c

LowChar(c) == IF IsUpper(c) THEN ToLower[c] ELSE c

\* str.upper()
Upper(s) == [i \in 1..Len(s) |-> UpChar(s[i])]

\* str.lower()
Lower(s) == [i \in 1..Len(s) |-> LowChar(s[i])]

\* str.title(): a cased character is upper-cased after an uncased one (or at
\* the start) and lower-cased after a cased one
Title(s) ==
    [i \in 1..Len(s) |->
        IF i = 1 \/ ~IsCased(s[i - 1]) THEN UpChar(s[i]) ELSE LowChar(s[i])]

\* str.replace(a, b) for one-character a and b
Replace(s, a, b) == [i \in 1..Len(s) |-> IF s[i] = a THEN b ELSE s[i]]

RECURSIVE LStrip(_)
LStrip(s) == IF s # <<>> /\ Head(s) \in Whitespace THEN LStrip(Tail(s)) ELSE s

RECURSIVE RStrip(_)
RStrip(s) ==
    IF s # <<>> /\ s[Len(s)] \in Whitespace THEN RStrip(SubSeq(s, 1, Len(s) - 1)) ELSE s

\* str.strip()
Strip(s) == RStrip(LStrip(s))

\* sub in s
Contains(sub, s) ==
    \E i \in 0..(Len(s) - Len(sub)) : SubSeq(s, i + 1, i + Len(sub)) = sub

\* str.split(): the maximal runs of non-whitespace characters, in order
RECURSIVE SplitFrom(_, _, _)
SplitFrom(s, i, word) ==
    IF i > Len(s)
    THEN IF word = <<>> THEN <<>> ELSE <<word>>
    ELSE IF s[i] \in Whitespace
         THEN IF word = <<>>
              THEN SplitFrom(s, i + 1, <<>>)
              ELSE <<word>> \o SplitFrom(s, i + 1, <<>>)
         ELSE SplitFrom(s, i + 1, Append(word, s[i]))

Split(s) == SplitFrom(s, 1, <<>>)

\* str(v)
PyStr(v) ==
    CASE v.t = "str" -> v.s
      [] v.t = "num" -> <<DigitChars[v.n + 1]>>
      [] v.t = "nan" -> <<"n","a","n">>
      [] OTHER -> <<"N","o","n","e">>

\* bool(v): None, the empty string and zero are falsy
Truthy(v) ==
    CASE v.t = "str" -> v.s # <<>>
      [] v.t = "num" -> v.n # 0
      [] v.t = "nan" -> TRUE
      [] OTHER -> FALSE

(***************************************************************************)
(* Configuration (app/core/config.py)                                      *)
(***************************************************************************)
MAX_HEADER_SEARCH_ROWS == 5
DEFAULT_HEADER_ROW == 1
TARGET_COLUMN == <<"T","I","P","O"," ","D","E"," ","U","N","I","D","A","D">>
SUPPORTED_FILE_EXTENSIONS == << <<".","x","l","s","x">> >>
NEW_COLUMN_WIDTH == 15

\* SAMPLE_RULES
TRACTOS == <<"T","R","A","C","T","O","S">>
REMOLQUES == <<"R","E","M","O","L","Q","U","E","S">>
DANOS_MATERIALES_LIMITES == <<"D","A","N","O","S"," ","M","A","T","E","R","I","A","L","E","S"," ","L","I","M","I","T","E","S">>
DANOS_MATERIALES_DEDUCIBLES == <<"D","A","N","O","S"," ","M","A","T","E","R","I","A","L","E","S"," ","D","E","D","U","C","I","B","L","E","S">>
ROBO_TOTAL_LIMITES == <<"R","O","B","O"," ","T","O","T","A","L"," ","L","I","M","I","T","E","S">>
ROBO_TOTAL_DEDUCIBLES == <<"R","O","B","O"," ","T","O","T","A","L"," ","D","E","D","U","C","I","B","L","E","S">>

\* rules["coberturas_por_tipo"]: for each vehicle type, its coverage kinds
coberturas_por_tipo ==
    [ty \in {TRACTOS, REMOLQUES} |->
        IF ty = TRACTOS
        THEN {"DANOS MATERIALES", "ROBO TOTAL",
              "RESPONSABILIDAD CIVIL POR DANOS A TERCEROS",
              "RESPONSABILIDAD CIVIL POR FALLECIMIENTO A PERSONAS"}
        ELSE {"DANOS MATERIALES", "ROBO TOTAL"}]

\* rules["coberturas_por_tipo"][ty]["coberturas"][kind] for the two kinds the
\* enrichment writes
coberturas_valores(ty, kind) ==
    [ LIMITES |-> <<"V","A","L","O","R"," ","C","O","N","V","E","N","I","D","O">>,
      DEDUCIBLES |-> IF ty = TRACTOS THEN <<"1","0"," ","%">> ELSE <<"5"," ","%">> ]

\* rules["reglas_asignacion"]["columnas_a_agregar"]
columnas_a_agregar ==
    << DANOS_MATERIALES_LIMITES, DANOS_MATERIALES_DEDUCIBLES,
       ROBO_TOTAL_LIMITES, ROBO_TOTAL_DEDUCIBLES >>

\* rules["reglas_asignacion"]["mapeo_columnas"]["columna_referencia"]
columna_referencia == <<"T","I","P","O"," ","D","E"," ","U","N","I","D","A","D">>

(***************************************************************************)
(* detect_header_row (app/utils/excel_utils.py)                            *)
(*                                                                         *)
(* A sheet is given here by the column labels pandas produces for each of  *)
(* its rows taken as header; reading with a header index beyond the last   *)
(* row fails, and the failure is swallowed by the inner try.               *)
(***************************************************************************)
read_excel_columns(sheetLabels, header_row) ==
    IF header_row + 1 <= Len(sheetLabels)
    THEN [ok |-> TRUE, columns |-> sheetLabels[header_row + 1]]
    ELSE [ok |-> FALSE, columns |-> <<>>]

column_variations(target_column) ==
    << Upper(target_column),
       Lower(target_column),
       Title(target_column),
       Replace(target_column, " ", "_"),
       Replace(target_column, "_", " ") >>

\* similar_header without the space/underscore variations
similar_header_case_only(col, target_column) ==
    Contains(Upper(target_column), Upper(Strip(PyStr(col))))

\* the test of lines 46-50 for one label
similar_header(col, target_column) ==
    LET col_clean == Strip(PyStr(col))
        variations == column_variations(target_column)
    IN  \E v \in {Upper(variations[i]) : i \in 1..Len(variations)} :
            Contains(v, Upper(col_clean))

\* the body of the for loop for one candidate: TRUE when it returns header_row
header_candidate_matches(sheetLabels, header_row, target_column) ==
    LET df_test == read_excel_columns(sheetLabels, header_row)
    IN  /\ df_test.ok
        /\ \/ \E i \in 1..Len(df_test.columns) : df_test.columns[i] = Str(target_column)
           \/ \E i \in 1..Len(df_test.columns) :
                  similar_header(df_test.columns[i], target_column)

RECURSIVE detect_header_loop(_, _, _, _)
detect_header_loop(sheetLabels, target_column, depth, header_row) ==
    IF header_row >= depth
    THEN DEFAULT_HEADER_ROW
    ELSE IF header_candidate_matches(sheetLabels, header_row, target_column)
         THEN header_row
         ELSE detect_header_loop(sheetLabels, target_column, depth, header_row + 1)

detect_header_row(sheetLabels, target_column, depth) ==
    detect_header_loop(sheetLabels, target_column, depth, 0)

(***************************************************************************)
(* find_column_mapping (app/utils/excel_utils.py)                          *)
(***************************************************************************)
Found(col, columns) == [ok |-> TRUE, col |-> col, available |-> columns]
ColumnNotFound(columns) == [ok |-> FALSE, col |-> PyNone, available |-> columns]

case_insensitive_match(col, target_column) ==
    Strip(Upper(PyStr(col))) = Strip(Upper(target_column))

fuzzy_match(col, target_column) ==
    LET target_words == Split(Upper(target_column))
        col_upper == Upper(PyStr(col))
    IN  \A w \in 1..Len(target_words) : Contains(target_words[w], col_upper)

partial_match(col) ==
    LET col_upper == Upper(PyStr(col))
    IN  /\ Contains(<<"T","I","P","O">>, col_upper)
        /\ Contains(<<"U","N","I","D","A","D">>, col_upper)

RECURSIVE partial_loop(_, _)
partial_loop(columns, i) ==
    IF i > Len(columns)
    THEN ColumnNotFound(columns)
    ELSE IF partial_match(columns[i])
         THEN Found(columns[i], columns)
         ELSE partial_loop(columns, i + 1)

RECURSIVE fuzzy_loop(_, _, _)
fuzzy_loop(columns, target_column, i) ==
    IF i > Len(columns)
    THEN partial_loop(columns, 1)
    ELSE IF fuzzy_match(columns[i], target_column)
         THEN Found(columns[i], columns)
         ELSE fuzzy_loop(columns, target_column, i + 1)

RECURSIVE case_insensitive_loop(_, _, _)
case_insensitive_loop(columns, target_column, i) ==
    IF i > Len(columns)
    THEN fuzzy_loop(columns, target_column, 1)
    ELSE IF case_insensitive_match(columns[i], target_column)
         THEN Found(columns[i], columns)
         ELSE case_insensitive_loop(columns, target_column, i + 1)

\* find_column_mapping trying every strategy on a column before the next column
find_column_mapping_by_column(columns, target_column) ==
    LET matches(col) == \/ col = Str(target_column)
                        \/ case_insensitive_match(col, target_column)
                        \/ fuzzy_match(col, target_column)
                        \/ partial_match(col)
        hits == {i \in 1..Len(columns) : matches(columns[i])}
    IN  IF hits = {}
        THEN ColumnNotFound(columns)
        ELSE Found(columns[CHOOSE i \in hits : \A j \in hits : i <= j], columns)

\* find_column_mapping stopping after the case-insensitive strategy
find_column_mapping_no_fuzzy(columns, target_column) ==
    IF \E i \in 1..Len(columns) : columns[i] = Str(target_column)
    THEN Found(Str(target_column), columns)
    ELSE LET hits == {i \in 1..Len(columns) : case_insensitive_match(columns[i], target_column)}
         IN  IF hits = {}
             THEN ColumnNotFound(columns)
             ELSE Found(columns[CHOOSE i \in hits : \A j \in hits : i <= j], columns)

find_column_mapping(columns, target_column) ==
    IF \E i \in 1..Len(columns) : columns[i] = Str(target_column)
    THEN Found(Str(target_column), columns)
    ELSE case_insensitive_loop(columns, target_column, 1)

(***************************************************************************)
(* Worksheets (openpyxl) and the formatting utilities                      *)
(* (app/utils/formatting_utils.py)                                         *)
(*                                                                         *)
(* A worksheet is [max_row, max_column, cells]; cells maps <<row, col>> to *)
(* [value, style].  ws.cell(row, column) of a cell that was never written  *)
(* yields a cell with value None and the default style.                    *)
(***************************************************************************)
DefaultStyle == <<0, 0>>
EmptyCell == [value |-> PyNone, style |-> DefaultStyle]

CellAt(ws, row, col) ==
    IF <<row, col>> \in DOMAIN ws.cells THEN ws.cells[<<row, col>>] ELSE EmptyCell

\* header_cell.value and str(header_cell.value).strip()
header_cell_counts(value) == Truthy(value) /\ Strip(PyStr(value)) # <<>>

RECURSIVE table_end_loop(_, _, _, _)
table_end_loop(ws, header_row_excel, col_idx, original_table_end_col) ==
    IF col_idx > ws.max_column
    THEN original_table_end_col
    ELSE IF header_cell_counts(CellAt(ws, header_row_excel, col_idx).value)
         THEN table_end_loop(ws, header_row_excel, col_idx + 1, col_idx)
         ELSE table_end_loop(ws, header_row_excel, col_idx + 1, original_table_end_col)

find_original_table_end(ws, header_row_excel) ==
    table_end_loop(ws, header_row_excel, 1, 1)

(***************************************************************************)
(* validate_excel_file, get_sheet_names (app/utils/excel_utils.py)         *)
(***************************************************************************)
EndsWith(s, suffix) ==
    /\ Len(suffix) <= Len(s)
    /\ SubSeq(s, Len(s) - Len(suffix) + 1, Len(s)) = suffix

validate_excel_file(filename) ==
    \E i \in 1..Len(SUPPORTED_FILE_EXTENSIONS) :
        EndsWith(filename, SUPPORTED_FILE_EXTENSIONS[i])

\* a file is [readable, sheet_names, ws]: an unreadable file has no sheet
get_sheet_names(file) == IF file.readable THEN file.sheet_names ELSE <<>>

InSeq(x, seq) == \E i \in 1..Len(seq) : seq[i] = x

IndexOf(x, seq) == CHOOSE i \in 1..Len(seq) : seq[i] = x /\ \A j \in 1..(i - 1) : seq[j] # x

(***************************************************************************)
(* pandas.read_excel: the labels of a header row and the data below it     *)
(***************************************************************************)
RowValues(ws, row) == [c \in 1..ws.max_column |-> CellAt(ws, row, c).value]

\* how many of the first i - 1 values equal the i-th
EarlierCopies(values, i) == Cardinality({j \in 1..(i - 1) : values[j] = values[i]})

\* an empty header cell is named "Unnamed: <position>", a repeated header gets
\* the suffix ".<count>", any other header is kept as it is
pandas_label(values, i) ==
    IF values[i] = PyNone \/ values[i] = Str(<<>>)
    THEN Str(<<"U","n","n","a","m","e","d",":"," ">> \o <<DigitChars[i]>>)
    ELSE IF EarlierCopies(values, i) > 0
         THEN Str(PyStr(values[i]) \o <<".">> \o <<DigitChars[EarlierCopies(values, i) + 1]>>)
         ELSE values[i]

pandas_labels(values) == [i \in 1..Len(values) |-> pandas_label(values, i)]

\* the labels pandas gives every row of the sheet when taken as header
sheet_labels(ws) == [r \in 1..ws.max_row |-> pandas_labels(RowValues(ws, r))]

\* an empty cell is read as NaN
pandas_value(v) == IF v = PyNone THEN PyNaN ELSE v

NoFrame == [columns |-> <<>>, rows |-> <<>>]

\* pd.read_excel(sheet_name, header=header_row): fails when the sheet has no
\* row header_row
read_excel(ws, header_row) ==
    IF header_row + 1 > ws.max_row
    THEN [ok |-> FALSE, df |-> NoFrame]
    ELSE [ok |-> TRUE,
          df |-> [columns |-> pandas_labels(RowValues(ws, header_row + 1)),
                  rows |-> [i \in 1..(ws.max_row - header_row - 1) |->
                               [c \in 1..ws.max_column |->
                                   pandas_value(CellAt(ws, header_row + 1 + i, c).value)]]]]

\* df[label] = value for every row: a new column, or an existing one overwritten
set_column(df, label, value) ==
    IF InSeq(label, df.columns)
    THEN [df EXCEPT !.rows = [i \in 1..Len(df.rows) |->
                                 [df.rows[i] EXCEPT ![IndexOf(label, df.columns)] = value]]]
    ELSE [columns |-> Append(df.columns, label),
          rows |-> [i \in 1..Len(df.rows) |-> Append(df.rows[i], value)]]

\* df.at[i, label] = value, for a label the frame has
set_at(df, i, label, value) ==
    [df EXCEPT !.rows[i][IndexOf(label, df.columns)] = value]

get_at(df, i, label) == df.rows[i][IndexOf(label, df.columns)]

(***************************************************************************)
(* OpenAIService (app/services/openai_service.py)                          *)
(*                                                                         *)
(* The remote service of a request is [configured, classify_raises,        *)
(* classify_text, generate]: classify_text is the text the chat completion *)
(* answers with unless classify_raises; generate is "values" (a            *)
(* well-formed JSON answer), "malformed" or "raise".                       *)
(***************************************************************************)
InsuranceValues(limites, deducibles) == [LIMITES |-> limites, DEDUCIBLES |-> deducibles]

RemoteValues ==
    InsuranceValues(<<"$","U","S"," ","9","5",",","0","0","0">>, <<"9",".","5"," ","%">>)

_get_fallback_values(vehicle_type) ==
    IF vehicle_type = TRACTOS
    THEN InsuranceValues(<<"$","U","S"," ","1","2","0",",","0","0","0">>, <<"1","0",".","0"," ","%">>)
    ELSE InsuranceValues(<<"$","U","S"," ","6","0",",","0","0","0">>, <<"6",".","0"," ","%">>)

_fallback_classification(vehicle_description, available_types) ==
    LET vehicle_upper == Strip(Upper(vehicle_description))
    IN  IF Contains(<<"T","R","A","C","T","O">>, vehicle_upper)
        THEN TRACTOS
        ELSE IF \E keyword \in { <<"T","A","N","Q","U","E">>, <<"R","E","M","O","L","Q","U","E">>,
                                 <<"D","O","L","L","Y">>, <<"S","E","M","I">> } :
                    Contains(keyword, vehicle_upper)
             THEN REMOLQUES
             ELSE TRACTOS

\* classify_vehicle answering an unknown category with the rule-based fallback
classify_vehicle_unknown_to_rules(vehicle_description, available_types, svc) ==
    IF ~svc.configured \/ svc.classify_raises
    THEN _fallback_classification(vehicle_description, available_types)
    ELSE LET classification == Upper(Strip(svc.classify_text))
         IN  IF InSeq(classification, available_types)
             THEN classification
             ELSE _fallback_classification(vehicle_description, available_types)

classify_vehicle(vehicle_description, available_types, svc) ==
    IF ~svc.configured
    THEN _fallback_classification(vehicle_description, available_types)
    ELSE IF svc.classify_raises
         THEN _fallback_classification(vehicle_description, available_types)
         ELSE LET classification == Upper(Strip(svc.classify_text))
              IN  IF InSeq(classification, available_types)
                  THEN classification
                  ELSE TRACTOS

\* generate_insurance_values falling back to the values of TRACTOS whatever
\* the vehicle's type
generate_insurance_values_tractos_default(vehicle_type, coverage_type, svc) ==
    IF ~svc.configured
    THEN _get_fallback_values(TRACTOS)
    ELSE IF svc.generate = "values"
         THEN RemoteValues
         ELSE _get_fallback_values(TRACTOS)

generate_insurance_values(vehicle_type, coverage_type, svc) ==
    IF ~svc.configured
    THEN _get_fallback_values(vehicle_type)
    ELSE IF svc.generate = "values"
         THEN RemoteValues
         ELSE _get_fallback_values(vehicle_type)

\* the try body of classify_vehicle (lines 158-192) raises: the chat
\* completion call fails or times out in the client, or the answer has no
\* text
classify_try_raises(svc) == svc.configured /\ svc.classify_raises

\* the try body of generate_insurance_values (lines 71-139) raises: the call
\* fails or times out, json.loads rejects the answer, or line 139 raises
generate_try_raises(svc) == svc.configured /\ svc.generate # "values"

\* `except Exception` letting the exception of the try body through
escapes_wrapper_uncaught(raised_in_try) == raised_in_try

\* `except Exception` (lines 141, 194): whatever the try body raised is
\* caught, and the handler returns
escapes_wrapper(raised_in_try) == FALSE

(***************************************************************************)
(* ExcelService.apply_ai_enrichment (app/services/excel_service.py)        *)
(***************************************************************************)
available_types == <<TRACTOS, REMOLQUES>>

\* no call of the row loop raises; no call has been made
NoFault == [row |-> 0, call |-> "none"]
NoCalls == [classify |-> 0, generate |-> 0]

RECURSIVE add_new_columns(_, _)
add_new_columns(df, k) ==
    IF k > Len(columnas_a_agregar)
    THEN df
    ELSE add_new_columns(set_column(df, Str(columnas_a_agregar[k]), Str(<<>>)), k + 1)

\* the skip test without the null markers
skipped_only_empty(vehicle_description) == vehicle_description = <<>>

skipped_description(vehicle_description) ==
    \/ vehicle_description = <<>>
    \/ Lower(vehicle_description) \in { <<"n","a","n">>, <<"n","o","n","e">>, <<>> }

\* the exception raised by a call of the try body of lines 67-110, if any:
\* fault is [row, call], call one of "classify" (line 69), "extract" (line
\* 73), "danos" (line 89), "robo" (line 98)
raises_at(fault, i, call) == fault.row = i /\ fault.call = call

\* the body of the row loop for row i, where a call may raise into the except
\* clause of line 107
enrich_row_with(df, i, reference_column, svc, fault) ==
    LET vehicle_description == Strip(PyStr(get_at(df, i, reference_column)))
        coverage_type == classify_vehicle(vehicle_description, available_types, svc)
        coverages == coberturas_por_tipo[coverage_type]
        danos_values == generate_insurance_values(coverage_type, "DANOS MATERIALES", svc)
        robo_values == generate_insurance_values(coverage_type, "ROBO TOTAL", svc)
        with_danos ==
            IF "DANOS MATERIALES" \in coverages
            THEN set_at(set_at(df, i, Str(DANOS_MATERIALES_LIMITES), Str(danos_values.LIMITES)),
                        i, Str(DANOS_MATERIALES_DEDUCIBLES), Str(danos_values.DEDUCIBLES))
            ELSE df
        with_robo ==
            IF "ROBO TOTAL" \in coverages
            THEN set_at(set_at(with_danos, i, Str(ROBO_TOTAL_LIMITES), Str(robo_values.LIMITES)),
                        i, Str(ROBO_TOTAL_DEDUCIBLES), Str(robo_values.DEDUCIBLES))
            ELSE with_danos
    IN  IF skipped_description(vehicle_description)
        THEN df
        ELSE IF raises_at(fault, i, "classify") \/ raises_at(fault, i, "extract")
             THEN df
             ELSE IF coverage_type \notin DOMAIN coberturas_por_tipo
                  THEN df
                  ELSE IF "DANOS MATERIALES" \in coverages /\ raises_at(fault, i, "danos")
                       THEN df
                       ELSE IF "ROBO TOTAL" \in coverages /\ raises_at(fault, i, "robo")
                            THEN with_danos
                            ELSE with_robo

\* the calls the body of the row loop makes for row i
row_calls(df, i, reference_column, svc, fault) ==
    LET vehicle_description == Strip(PyStr(get_at(df, i, reference_column)))
        coverage_type == classify_vehicle(vehicle_description, available_types, svc)
        coverages == coberturas_por_tipo[coverage_type]
        classified ==
            ~skipped_description(vehicle_description) /\ ~raises_at(fault, i, "classify")
        reaches_rules ==
            /\ classified
            /\ ~raises_at(fault, i, "extract")
            /\ coverage_type \in DOMAIN coberturas_por_tipo
        calls_danos == reaches_rules /\ "DANOS MATERIALES" \in coverages
        calls_robo ==
            /\ reaches_rules
            /\ "ROBO TOTAL" \in coverages
            /\ ~(calls_danos /\ raises_at(fault, i, "danos"))
    IN  [classify |-> IF skipped_description(vehicle_description) THEN 0 ELSE 1,
         generate |-> (IF calls_danos THEN 1 ELSE 0) + (IF calls_robo THEN 1 ELSE 0)]

\* the body of the row loop for row i when nothing raises
enrich_row(df, i, reference_column, svc) ==
    enrich_row_with(df, i, reference_column, svc, NoFault)

RECURSIVE enrich_rows(_, _, _, _)
enrich_rows(df, i, reference_column, svc) ==
    IF i > Len(df.rows)
    THEN df
    ELSE enrich_rows(enrich_row(df, i, reference_column, svc), i + 1, reference_column, svc)

\* enriched_df already holding the new columns when the reference column is
\* looked up
df_copy_with_new_columns(df) == add_new_columns(df, 1)

\* enriched_df = df.copy()
df_copy(df) == df

\* [ok, df, available]: not ok is the ValueError of line 49, carrying
\* list(enriched_df.columns)
apply_ai_enrichment(df, svc) ==
    LET enriched_df_copy == df_copy(df)
        reference == find_column_mapping(enriched_df_copy.columns, columna_referencia)
    IN  IF ~reference.ok
        THEN [ok |-> FALSE, df |-> NoFrame, available |-> enriched_df_copy.columns]
        ELSE [ok |-> TRUE,
              df |-> enrich_rows(add_new_columns(enriched_df_copy, 1), 1, reference.col, svc),
              available |-> <<>>]

(***************************************************************************)
(* State                                                                   *)
(***************************************************************************)
VARIABLES
    nm_sheet,      \* detect_header_row's sheet: per row, the labels pandas gives it
    nm_columns,    \* find_column_mapping's df.columns
    nm_target,     \* target_column
    nm_depth,      \* the header search depth (settings.MAX_HEADER_SEARCH_ROWS)
    nm_pc,         \* "idle" | "ready" | "detected" | "resolved" | "resolved_detected"
    nm_header,     \* detect_header_row's result
    nm_found,      \* find_column_mapping's result
    ext_ws,        \* find_original_table_end's worksheet
    ext_pc,        \* "idle" | "ready" | "done"
    ext_end,       \* find_original_table_end's result
    \* the export request (app/routes/excel.py)
    rq_filename,             \* file.filename
    rq_sheet_name,           \* the sheet_name form field
    rq_file,                 \* the uploaded content: [readable, sheet_names, ws]
    svc,                     \* the remote service during the request
    pc,                      \* the request's position
    header_row,              \* detect_header_row's result (0-indexed)
    df,                      \* the sheet as read by pandas
    enriched_df,             \* apply_ai_enrichment's result
    temp_filename,           \* the route's temp_filename: "None" or "set"
    status,                  \* the response's status code, 0 before the response
    failure,                 \* what was raised, "" when nothing
    detail_list,             \* the list the error message carries
    \* create_enriched_excel (app/services/excel_service.py)
    temp_file,               \* the temporary file: "absent", "empty" or "saved"
    saved_ws,                \* the sheet as saved in the temporary file
    ws,                      \* the worksheet being rewritten
    original_table_end_col,
    col_mapping,             \* col_name -> column index
    col_idx,                 \* the mapping loop's column
    new_idx,                 \* the extension loop's position in new_columns
    next_col,
    header_style,
    data_row_styles,         \* column index -> style
    col_widths,              \* column index -> width
    run,                     \* which call of create_enriched_excel this is: 1 or 2
    first_mapping,           \* col_mapping at the end of the first call
    first_header_cells,      \* the header row as the first call saved it
    \* apply_ai_enrichment (app/services/excel_service.py) taken alone
    en_pc,                   \* "idle" | "start" | "columns" | "rows" | "returned" | "raised"
    en_df,                   \* the frame passed in
    en_svc,                  \* the remote service during the call
    en_fault,                \* the call of the row loop's try body that raises, if any
    en_enriched,             \* enriched_df
    en_reference,            \* reference_column
    en_row,                  \* the row loop's position
    en_calls,                \* calls made so far: [classify, generate]
    en_available,            \* the columns the ValueError lists
    \* cell styles as objects (app/utils/formatting_utils.py)
    st_cells,                \* cell -> facet -> the object the cell's facet refers to
    st_heap,                 \* object -> its look
    st_captured,             \* the dict copy_cell_style returned: facet -> object
    st_allocated,            \* how many objects exist
    st_mutations,            \* how many facets have been mutated
    \* OpenAIService's two wrappers called on their own
    ca_pc,                   \* "idle" | "ready" | "classified" | "generated"
    ca_description,          \* vehicle_description
    ca_types,                \* available_types
    ca_vehicle_type,         \* vehicle_info.type
    ca_remote,               \* what the remote service does during the call
    ca_svc,                  \* the remote service during the call
    ca_classification,       \* classify_vehicle's result
    ca_values,               \* generate_insurance_values' result
    ca_raised                \* the call ended in an exception

nm_vars == <<nm_sheet, nm_columns, nm_target, nm_depth, nm_pc, nm_header, nm_found>>

ext_vars == <<ext_ws, ext_pc, ext_end>>

rq_vars == <<rq_filename, rq_sheet_name, rq_file, svc>>

rt_vars == <<pc, header_row, df, enriched_df, temp_filename, status, failure, detail_list>>

rw_vars == <<ws, original_table_end_col, col_mapping, col_idx, new_idx, next_col,
             header_style, data_row_styles, col_widths>>

fs_vars == <<temp_file, saved_ws>>

run_vars == <<run, first_mapping, first_header_cells>>

en_vars == <<en_pc, en_df, en_svc, en_fault, en_enriched, en_reference, en_row, en_calls,
             en_available>>

st_vars == <<st_cells, st_heap, st_captured, st_allocated, st_mutations>>

ca_vars == <<ca_pc, ca_description, ca_types, ca_vehicle_type, ca_remote, ca_svc,
             ca_classification, ca_values, ca_raised>>

vars == <<nm_vars, ext_vars, rq_vars, rt_vars, rw_vars, fs_vars, run_vars, en_vars, st_vars,
          ca_vars>>

(***************************************************************************)
(* Bounds and input catalogues                                             *)
(***************************************************************************)
MaxLabels == 2        \* labels in a header row of the name checks
MaxTitleRows == 1     \* rows above the header row of the name checks
MaxDepth == 2         \* largest header search depth of the name checks

SeqsUpTo(S, n) == UNION {[1..k -> S] : k \in 0..n}
NonEmptySeqsUpTo(S, n) == UNION {[1..k -> S] : k \in 1..n}

LabelCat ==
    { Str(<<"T","I","P","O"," ","D","E"," ","U","N","I","D","A","D">>),
      Str(<<"T","i","p","o","_","d","e","_","U","n","i","d","a","d">>),
      Str(<<"t","i","p","o"," ","d","e"," ","u","n","i","d","a","d"," ">>),
      Str(<<"U","N","I","D","A","D"," ","T","I","P","O">>),
      Str(<<"R","E","P","O","R","T","E"," ","T","I","P","O"," ","D","E"," ","U","N","I","D","A","D">>),
      Str(<<"M","O","D">>),
      Str(<<"M","o","d","e","l","o">>),
      Str(<<"N","u","m"," ","S","e","r","i","e">>),
      Num(0) }

TitleRowCat ==
    { <<Str(<<"F","L","O","T","A"," ","2","0","2","4">>)>>,
      <<Str(<<"R","E","P","O","R","T","E"," ","T","I","P","O"," ","D","E"," ","U","N","I","D","A","D">>)>> }

TargetCat ==
    { TARGET_COLUMN,
      <<"T","I","P","O","_","D","E","_","U","N","I","D","A","D">>,
      <<"N","U","M","_","S","E","R","I","E">>,
      <<"M","O","D">> }

NoFound == [ok |-> FALSE, col |-> PyNone, available |-> <<>>]

MaxExtentCols == 5    \* widest header row of the table-extent checks

HeaderValueCat ==
    { PyNone, Str(<<>>), Str(<<" ">>), Str(<<"M","O","D">>), Num(0), Num(7) }

NoSheet == [max_row |-> 0, max_column |-> 0, cells |-> <<>>]

\* a worksheet of one row holding the given values
OneRowSheet(values) ==
    [ max_row |-> 1,
      max_column |-> Len(values),
      cells |-> [rc \in {1} \X (1..Len(values)) |->
                    [value |-> values[rc[2]], style |-> rc]] ]

\* the variables of the other checks, at rest
NmIdle ==
    /\ nm_sheet = <<>>
    /\ nm_columns = <<>>
    /\ nm_target = <<>>
    /\ nm_depth = 0
    /\ nm_pc = "idle"
    /\ nm_header = -1
    /\ nm_found = NoFound

ExtIdle ==
    /\ ext_ws = NoSheet
    /\ ext_pc = "idle"
    /\ ext_end = 0

NoFile == [readable |-> FALSE, sheet_names |-> <<>>, ws |-> NoSheet]
NoService == [configured |-> FALSE, classify_raises |-> TRUE, classify_text |-> <<>>,
              generate |-> "raise"]
NoMapping == <<>>

\* the locals of create_enriched_excel outside a call
RewriteIdle ==
    /\ ws = NoSheet
    /\ original_table_end_col = 0
    /\ col_mapping = NoMapping
    /\ col_idx = 0
    /\ new_idx = 0
    /\ next_col = 0
    /\ header_style = DefaultStyle
    /\ data_row_styles = <<>>
    /\ col_widths = <<>>

\* apply_ai_enrichment is not being followed on its own
EnIdle ==
    /\ en_pc = "idle"
    /\ en_df = NoFrame
    /\ en_svc = NoService
    /\ en_fault = NoFault
    /\ en_enriched = NoFrame
    /\ en_reference = PyNone
    /\ en_row = 0
    /\ en_calls = NoCalls
    /\ en_available = <<>>

\* no style object is being followed
StIdle ==
    /\ st_cells = <<>>
    /\ st_heap = <<>>
    /\ st_captured = <<>>
    /\ st_allocated = 0
    /\ st_mutations = 0

NoValues == [LIMITES |-> <<>>, DEDUCIBLES |-> <<>>]

\* no wrapper of OpenAIService is being followed on its own
CaIdle ==
    /\ ca_pc = "idle"
    /\ ca_description = <<>>
    /\ ca_types = <<>>
    /\ ca_vehicle_type = <<>>
    /\ ca_remote = "none"
    /\ ca_svc = NoService
    /\ ca_classification = <<>>
    /\ ca_values = NoValues
    /\ ca_raised = FALSE

\* no call of create_enriched_excel has finished
NoEarlierRun ==
    /\ first_mapping = NoMapping
    /\ first_header_cells = <<>>

RequestIdle ==
    /\ run = 0
    /\ NoEarlierRun
    /\ rq_filename = <<>>
    /\ rq_sheet_name = ""
    /\ rq_file = NoFile
    /\ svc = NoService
    /\ pc = "idle"
    /\ header_row = -1
    /\ df = NoFrame
    /\ enriched_df = NoFrame
    /\ temp_filename = "None"
    /\ status = 0
    /\ failure = ""
    /\ detail_list = <<>>
    /\ temp_file = "absent"
    /\ saved_ws = NoSheet
    /\ RewriteIdle

(***************************************************************************)
(* The name checks: detect_header_row and find_column_mapping applied to   *)
(* bounded inputs                                                          *)
(***************************************************************************)
NmInit ==
    /\ nm_columns \in NonEmptySeqsUpTo(LabelCat, MaxLabels)
    /\ \E titles \in SeqsUpTo(TitleRowCat, MaxTitleRows) :
           nm_sheet = titles \o <<nm_columns>>
    /\ nm_target \in TargetCat
    /\ nm_depth \in 0..MaxDepth
    /\ nm_pc = "ready"
    /\ nm_header = -1
    /\ nm_found = NoFound
    /\ ExtIdle
    /\ RequestIdle
    /\ EnIdle
    /\ StIdle
    /\ CaIdle

NmDetect ==
    /\ nm_pc = "ready"
    /\ nm_header' = detect_header_row(nm_sheet, nm_target, nm_depth)
    /\ nm_pc' = "detected"
    /\ UNCHANGED <<nm_sheet, nm_columns, nm_target, nm_depth, nm_found, ext_vars, rq_vars, run_vars, en_vars, st_vars, rt_vars, rw_vars, fs_vars, ca_vars>>

NmResolve ==
    /\ nm_pc = "ready"
    /\ nm_found' = find_column_mapping(nm_columns, nm_target)
    /\ nm_pc' = "resolved"
    /\ UNCHANGED <<nm_sheet, nm_columns, nm_target, nm_depth, nm_header, ext_vars, rq_vars, run_vars, en_vars, st_vars, rt_vars, rw_vars, fs_vars, ca_vars>>

\* the route's sequel: the labels of the detected row are resolved
NmResolveDetected ==
    /\ nm_pc = "detected"
    /\ read_excel_columns(nm_sheet, nm_header).ok
    /\ nm_found' = find_column_mapping(read_excel_columns(nm_sheet, nm_header).columns, nm_target)
    /\ nm_pc' = "resolved_detected"
    /\ UNCHANGED <<nm_sheet, nm_columns, nm_target, nm_depth, nm_header, ext_vars, rq_vars, run_vars, en_vars, st_vars, rt_vars, rw_vars, fs_vars, ca_vars>>

NmNext == NmDetect \/ NmResolve \/ NmResolveDetected

SpecNames == NmInit /\ [][NmNext]_vars

(***************************************************************************)
(* The table-extent checks: find_original_table_end applied to bounded     *)
(* header rows                                                             *)
(***************************************************************************)
ExtInit ==
    /\ \E values \in NonEmptySeqsUpTo(HeaderValueCat, MaxExtentCols) :
           ext_ws = OneRowSheet(values)
    /\ ext_pc = "ready"
    /\ ext_end = 0
    /\ NmIdle
    /\ RequestIdle
    /\ EnIdle
    /\ StIdle
    /\ CaIdle

ExtFind ==
    /\ ext_pc = "ready"
    /\ ext_end' = find_original_table_end(ext_ws, 1)
    /\ ext_pc' = "done"
    /\ UNCHANGED <<ext_ws, nm_vars, rq_vars, run_vars, en_vars, st_vars, rt_vars, rw_vars, fs_vars, ca_vars>>

ExtNext == ExtFind

SpecExtent == ExtInit /\ [][ExtNext]_vars

(***************************************************************************)
(* The export request: inputs                                              *)
(***************************************************************************)
MaxDataRows == 2      \* data rows below the header row of an uploaded sheet

TIPO_DE_UNIDAD == Str(<<"T","I","P","O"," ","D","E"," ","U","N","I","D","A","D">>)
Tipo_de_Unidad == Str(<<"T","i","p","o","_","d","e","_","U","n","i","d","a","d">>)
MOD == Str(<<"M","O","D">>)
MOD_trailing_space == Str(<<"M","O","D"," ">>)

\* header rows of uploaded sheets
HeaderRowCat ==
    { <<TIPO_DE_UNIDAD, MOD>>,
      <<Tipo_de_Unidad, MOD>>,
      <<MOD, PyNone>>,
      <<TIPO_DE_UNIDAD, PyNone>>,
      <<TIPO_DE_UNIDAD, PyNone, MOD>>,
      <<TIPO_DE_UNIDAD, MOD, MOD>>,
      <<TIPO_DE_UNIDAD, MOD_trailing_space>>,
      <<TIPO_DE_UNIDAD, Num(0)>> }

\* a data row: the vehicle description in column 1, the other columns filled
\* with a value naming the cell, or left empty
RowKindCat == {"tracto", "dolly", "blank_description", "description_only"}

DataValue(kind, row, col) ==
    IF col = 1
    THEN CASE kind = "dolly" -> Str(<<"D","O","L","L","Y">>)
           [] kind = "blank_description" -> PyNone
           [] OTHER -> Str(<<"T","R","A","C","T","O">>)
    ELSE IF kind = "description_only"
         THEN PyNone
         ELSE Str(<<"v", DigitChars[row + 1], DigitChars[col + 1]>>)

TitleValue(col) ==
    IF col = 1 THEN Str(<<"F","L","O","T","A"," ","2","0","2","4">>) ELSE PyNone

\* the sheet with `titles` title rows, then the header row, then one data row
\* per kind; every cell has a style of its own, named after its place
BuildSheet(titles, header, kinds) ==
    [ max_row |-> titles + 1 + Len(kinds),
      max_column |-> Len(header),
      cells |-> [rc \in (1..(titles + 1 + Len(kinds))) \X (1..Len(header)) |->
                    [ value |-> IF rc[1] <= titles
                                THEN TitleValue(rc[2])
                                ELSE IF rc[1] = titles + 1
                                     THEN header[rc[2]]
                                     ELSE DataValue(kinds[rc[1] - titles - 1], rc[1], rc[2]),
                      style |-> rc ]] ]

ServiceCat ==
    { NoService,
      [configured |-> TRUE, classify_raises |-> FALSE,
       classify_text |-> <<"T","R","A","C","T","O","S">>, generate |-> "values"],
      [configured |-> TRUE, classify_raises |-> FALSE,
       classify_text |-> <<" ","r","e","m","o","l","q","u","e","s">>, generate |-> "values"],
      [configured |-> TRUE, classify_raises |-> FALSE,
       classify_text |-> <<"C","A","M","I","O","N">>, generate |-> "malformed"],
      [configured |-> TRUE, classify_raises |-> TRUE,
       classify_text |-> <<>>, generate |-> "raise"] }

SheetNames == <<"Flota", "Resumen">>
GoodFilename == <<"f","l","o","t","a",".","x","l","s","x">>
BadFilename == <<"f","l","o","t","a",".","x","l","s">>

PlainSheet == BuildSheet(0, <<TIPO_DE_UNIDAD, MOD>>, <<"tracto">>)

Init ==
    /\ NmIdle
    /\ ExtIdle
    /\ EnIdle
    /\ StIdle
    /\ CaIdle
    /\ run = 1
    /\ NoEarlierRun
    /\ \/ \* a well-formed upload
          /\ rq_filename = GoodFilename
          /\ rq_sheet_name = "Flota"
          /\ \E titles \in 0..MaxTitleRows, header \in HeaderRowCat,
                kinds \in SeqsUpTo(RowKindCat, MaxDataRows) :
                 rq_file = [readable |-> TRUE, sheet_names |-> SheetNames,
                            ws |-> BuildSheet(titles, header, kinds)]
          /\ svc \in ServiceCat
       \/ \* an unsupported extension, a missing sheet, an unreadable file
          /\ \E bad \in {"extension", "sheet", "unreadable"} :
                /\ rq_filename = IF bad = "extension" THEN BadFilename ELSE GoodFilename
                /\ rq_sheet_name = IF bad = "sheet" THEN "Hoja1" ELSE "Flota"
                /\ rq_file = [readable |-> bad # "unreadable", sheet_names |-> SheetNames,
                              ws |-> PlainSheet]
          /\ svc = NoService
    /\ pc = "validate"
    /\ header_row = -1
    /\ df = NoFrame
    /\ enriched_df = NoFrame
    /\ temp_filename = "None"
    /\ status = 0
    /\ failure = ""
    /\ detail_list = <<>>
    /\ temp_file = "absent"
    /\ saved_ws = NoSheet
    /\ RewriteIdle

(***************************************************************************)
(* export_modified_excel (app/routes/excel.py)                             *)
(***************************************************************************)
ValidateFile ==
    /\ pc = "validate"
    /\ IF validate_excel_file(rq_filename)
       THEN /\ pc' = "sheets"
            /\ UNCHANGED failure
       ELSE /\ pc' = "http_except"
            /\ failure' = "unsupported_file_type"
    /\ UNCHANGED <<header_row, df, enriched_df, temp_filename, status, detail_list>>
    /\ UNCHANGED <<nm_vars, ext_vars, rq_vars, run_vars, en_vars, st_vars, rw_vars, fs_vars, ca_vars>>

CheckSheet ==
    /\ pc = "sheets"
    /\ IF InSeq(rq_sheet_name, get_sheet_names(rq_file))
       THEN /\ pc' = "detect"
            /\ UNCHANGED <<failure, detail_list>>
       ELSE /\ pc' = "http_except"
            /\ failure' = "sheet_not_found"
            /\ detail_list' = get_sheet_names(rq_file)
    /\ UNCHANGED <<header_row, df, enriched_df, temp_filename, status>>
    /\ UNCHANGED <<nm_vars, ext_vars, rq_vars, run_vars, en_vars, st_vars, rw_vars, fs_vars, ca_vars>>

DetectHeader ==
    /\ pc = "detect"
    /\ header_row' = detect_header_row(sheet_labels(rq_file.ws), TARGET_COLUMN,
                                       MAX_HEADER_SEARCH_ROWS)
    /\ pc' = "read"
    /\ UNCHANGED <<df, enriched_df, temp_filename, status, failure, detail_list>>
    /\ UNCHANGED <<nm_vars, ext_vars, rq_vars, run_vars, en_vars, st_vars, rw_vars, fs_vars, ca_vars>>

ReadSheet ==
    /\ pc = "read"
    /\ LET read == read_excel(rq_file.ws, header_row)
       IN  IF read.ok
           THEN /\ df' = read.df
                /\ pc' = "enrich"
                /\ UNCHANGED failure
           ELSE /\ pc' = "generic_except"
                /\ failure' = "read_error"
                /\ UNCHANGED df
    /\ UNCHANGED <<header_row, enriched_df, temp_filename, status, detail_list>>
    /\ UNCHANGED <<nm_vars, ext_vars, rq_vars, run_vars, en_vars, st_vars, rw_vars, fs_vars, ca_vars>>

\* lines 59-67: a failure of apply_ai_enrichment is raised again as a plain
\* Exception
Enrich ==
    /\ pc = "enrich"
    /\ LET enriched == apply_ai_enrichment(df, svc)
       IN  IF enriched.ok
           THEN /\ enriched_df' = enriched.df
                /\ pc' = "create"
                /\ UNCHANGED <<failure, detail_list>>
           ELSE /\ pc' = "generic_except"
                /\ failure' = "reference_column_not_found"
                /\ detail_list' = enriched.available
                /\ UNCHANGED enriched_df
    /\ UNCHANGED <<header_row, df, temp_filename, status>>
    /\ UNCHANGED <<nm_vars, ext_vars, rq_vars, run_vars, en_vars, st_vars, rw_vars, fs_vars, ca_vars>>

\* FileResponse(path=temp_filename): the file is handed to the response and
\* nothing removes it afterwards
Respond ==
    /\ pc = "respond"
    /\ status' = 200
    /\ pc' = "done"
    /\ UNCHANGED <<header_row, df, enriched_df, temp_filename, failure, detail_list>>
    /\ UNCHANGED <<nm_vars, ext_vars, rq_vars, run_vars, en_vars, st_vars, rw_vars, fs_vars, ca_vars>>

\* os.unlink(temp_filename) when temp_filename is set and the file exists
RouteCleanup ==
    IF temp_filename = "set" /\ temp_file # "absent"
    THEN temp_file' = "absent" /\ saved_ws' = NoSheet
    ELSE UNCHANGED <<temp_file, saved_ws>>

\* except HTTPException: clean up and re-raise
HandleHTTPException ==
    /\ pc = "http_except"
    /\ RouteCleanup
    /\ status' = 400
    /\ pc' = "done"
    /\ UNCHANGED <<header_row, df, enriched_df, temp_filename, failure, detail_list>>
    /\ UNCHANGED <<nm_vars, ext_vars, rq_vars, run_vars, en_vars, st_vars, rw_vars, ca_vars>>

\* except Exception: clean up and raise HTTPException(500)
HandleException ==
    /\ pc = "generic_except"
    /\ RouteCleanup
    /\ status' = 500
    /\ pc' = "done"
    /\ UNCHANGED <<header_row, df, enriched_df, temp_filename, failure, detail_list>>
    /\ UNCHANGED <<nm_vars, ext_vars, rq_vars, run_vars, en_vars, st_vars, rw_vars, ca_vars>>

(***************************************************************************)
(* ExcelService.create_enriched_excel (app/services/excel_service.py)      *)
(***************************************************************************)
data_start_row == header_row + 2
header_row_excel == header_row + 1

\* tempfile.NamedTemporaryFile(delete=False): the file exists, empty
CreateTemp ==
    /\ pc = "create"
    /\ temp_file' = "empty"
    /\ pc' = "load"
    /\ UNCHANGED saved_ws
    /\ UNCHANGED <<header_row, df, enriched_df, temp_filename, status, failure, detail_list>>
    /\ UNCHANGED <<nm_vars, ext_vars, rq_vars, run_vars, en_vars, st_vars, rw_vars, ca_vars>>

\* the loaded worksheet, with room for the cells ws.cell() will create
LoadedSheet(sheet) ==
    [ max_row |-> sheet.max_row,
      max_column |-> sheet.max_column,
      cells |-> [rc \in (1..sheet.max_row) \X (1..(sheet.max_column + Len(columnas_a_agregar))) |->
                    CellAt(sheet, rc[1], rc[2])] ]

\* load_workbook, then find_original_table_end; the route has checked that
\* the sheet name is one of the workbook's, so line 137 takes its branch
LoadAndFindExtent ==
    /\ pc = "load"
    /\ InSeq(rq_sheet_name, rq_file.sheet_names)
    /\ ws' = LoadedSheet(rq_file.ws)
    /\ original_table_end_col' = find_original_table_end(rq_file.ws, header_row_excel)
    /\ col_mapping' = NoMapping
    /\ col_idx' = 1
    /\ pc' = "map"
    /\ UNCHANGED <<new_idx, next_col, header_style, data_row_styles, col_widths>>
    /\ UNCHANGED <<header_row, df, enriched_df, temp_filename, status, failure, detail_list>>
    /\ UNCHANGED <<nm_vars, ext_vars, rq_vars, run_vars, en_vars, st_vars, fs_vars, ca_vars>>

\* col_mapping[col_name] = col_idx
map_put(mapping, col_name, idx) ==
    [name \in (DOMAIN mapping) \cup {col_name} |->
        IF name = col_name THEN idx ELSE mapping[name]]

\* copy_cell_style
copy_cell_style(source_cell) == source_cell.style

\* apply_cell_style
apply_cell_style(cell, style) == [cell EXCEPT !.style = style]

\* one pass of the loop of lines 149-153; after the last column, lines 156-161
MapColumn ==
    /\ pc = "map"
    /\ IF col_idx <= original_table_end_col
       THEN /\ LET header_cell == CellAt(ws, header_row_excel, col_idx)
               IN  col_mapping' =
                       IF Truthy(header_cell.value)
                       THEN map_put(col_mapping, Strip(PyStr(header_cell.value)), col_idx)
                       ELSE col_mapping
            /\ col_idx' = col_idx + 1
            /\ UNCHANGED <<pc, next_col, header_style, new_idx>>
       ELSE /\ next_col' = original_table_end_col + 1
            /\ header_style' =
                   copy_cell_style(CellAt(ws, header_row_excel, original_table_end_col))
            /\ new_idx' = 1
            /\ pc' = "extend"
            /\ UNCHANGED <<col_mapping, col_idx>>
    /\ UNCHANGED <<ws, original_table_end_col, data_row_styles, col_widths>>
    /\ UNCHANGED <<header_row, df, enriched_df, temp_filename, status, failure, detail_list>>
    /\ UNCHANGED <<nm_vars, ext_vars, rq_vars, run_vars, en_vars, st_vars, fs_vars, ca_vars>>

\* ws.cell(row, column, value) followed by apply_cell_style
put_cell(sheet, row, col, value, style) ==
    [ sheet EXCEPT !.cells[<<row, col>>] = [value |-> value, style |-> style],
                   !.max_column = IF col > @ THEN col ELSE @,
                   !.max_row = IF row > @ THEN row ELSE @ ]

\* the test of line 164 always finding the column missing
never_mapped(new_col, mapping) == FALSE

\* the test of line 164 always finding the column present
always_mapped(new_col, mapping) == TRUE

\* new_col in col_mapping
already_mapped(new_col, mapping) == new_col \in DOMAIN mapping

\* one pass of the loop of lines 163-171
ExtendColumn ==
    /\ pc = "extend"
    /\ IF new_idx <= Len(columnas_a_agregar)
       THEN /\ LET new_col == columnas_a_agregar[new_idx]
               IN  IF ~already_mapped(new_col, col_mapping)
                   THEN /\ ws' = put_cell(ws, header_row_excel, next_col, Str(new_col),
                                          header_style)
                        /\ col_mapping' = map_put(col_mapping, new_col, next_col)
                        /\ next_col' = next_col + 1
                   ELSE UNCHANGED <<ws, col_mapping, next_col>>
            /\ new_idx' = new_idx + 1
            /\ UNCHANGED pc
       ELSE /\ pc' = "clear"
            /\ UNCHANGED <<ws, col_mapping, next_col, new_idx>>
    /\ UNCHANGED <<original_table_end_col, col_idx, header_style, data_row_styles, col_widths>>
    /\ UNCHANGED <<header_row, df, enriched_df, temp_filename, status, failure, detail_list>>
    /\ UNCHANGED <<nm_vars, ext_vars, rq_vars, run_vars, en_vars, st_vars, fs_vars, ca_vars>>

\* get_data_row_styles capturing nothing
get_data_row_styles_none(sheet, start_row, end_col) == <<>>

get_data_row_styles(sheet, start_row, end_col) ==
    IF sheet.max_row >= start_row
    THEN [c \in 1..end_col |-> copy_cell_style(CellAt(sheet, start_row, c))]
    ELSE <<>>

\* clear_data_rows starting one row early, at the header row
clear_data_rows_from_header(sheet, start_row, max_row, max_col) ==
    [ sheet EXCEPT !.cells =
        [rc \in DOMAIN sheet.cells |->
            IF rc[1] \in (start_row - 1)..max_row /\ rc[2] \in 1..(max_col - 1)
            THEN [sheet.cells[rc] EXCEPT !.value = PyNone]
            ELSE sheet.cells[rc]] ]

\* clear_data_rows: rows data_start_row..max_row, columns 1..max_col - 1
clear_data_rows(sheet, start_row, max_row, max_col) ==
    [ sheet EXCEPT !.cells =
        [rc \in DOMAIN sheet.cells |->
            IF rc[1] \in start_row..max_row /\ rc[2] \in 1..(max_col - 1)
            THEN [sheet.cells[rc] EXCEPT !.value = PyNone]
            ELSE sheet.cells[rc]] ]

\* lines 174-178
ClearRows ==
    /\ pc = "clear"
    /\ data_row_styles' = get_data_row_styles(ws, data_start_row, original_table_end_col)
    /\ ws' = clear_data_rows(ws, data_start_row, ws.max_row, next_col)
    /\ pc' = "write"
    /\ UNCHANGED <<original_table_end_col, col_mapping, col_idx, new_idx, next_col,
                   header_style, col_widths>>
    /\ UNCHANGED <<header_row, df, enriched_df, temp_filename, status, failure, detail_list>>
    /\ UNCHANGED <<nm_vars, ext_vars, rq_vars, run_vars, en_vars, st_vars, fs_vars, ca_vars>>

\* the cell written without the pd.isna test: a missing value goes through
\* str()
written_cell_as_text(old, frame, row_idx, col_name, col_pos, end_col, styles) ==
    LET value == get_at(frame, row_idx, Str(col_name))
        cell == [old EXCEPT !.value = IF value = PyNaN \/ value = PyNone
                                      THEN Str(PyStr(value))
                                      ELSE value]
    IN  IF col_pos <= end_col /\ col_pos \in DOMAIN styles
        THEN apply_cell_style(cell, styles[col_pos])
        ELSE IF col_pos > end_col /\ end_col \in DOMAIN styles
             THEN apply_cell_style(cell, styles[end_col])
             ELSE cell

\* the cell written at (excel_row, col_pos) for column col_name: lines 187-201
written_cell(old, frame, row_idx, col_name, col_pos, end_col, styles) ==
    LET value == get_at(frame, row_idx, Str(col_name))
        cell == [old EXCEPT !.value = IF value = PyNaN \/ value = PyNone
                                      THEN Str(<<>>)
                                      ELSE value]
    IN  IF col_pos <= end_col /\ col_pos \in DOMAIN styles
        THEN apply_cell_style(cell, styles[col_pos])
        ELSE IF col_pos > end_col /\ end_col \in DOMAIN styles
             THEN apply_cell_style(cell, styles[end_col])
             ELSE cell

\* the write loops taking the frame's rows in reverse order
write_rows_reversed(sheet, frame, mapping, start_row, end_col, styles) ==
    [ sheet EXCEPT !.cells =
        [rc \in DOMAIN sheet.cells |->
            LET row_idx == Len(frame.rows) - (rc[1] - start_row)
                names == {name \in DOMAIN mapping :
                             mapping[name] = rc[2] /\ InSeq(Str(name), frame.columns)}
            IN  IF row_idx \in 1..Len(frame.rows) /\ names # {}
                THEN written_cell(sheet.cells[rc], frame, row_idx, CHOOSE name \in names : TRUE,
                                  rc[2], end_col, styles)
                ELSE sheet.cells[rc]] ]

\* the loops of lines 181-201 over the rows of the frame and the entries of
\* the mapping; every entry has a column of its own
write_rows(sheet, frame, mapping, start_row, end_col, styles) ==
    [ sheet EXCEPT !.cells =
        [rc \in DOMAIN sheet.cells |->
            LET row_idx == rc[1] - start_row + 1
                names == {name \in DOMAIN mapping :
                             mapping[name] = rc[2] /\ InSeq(Str(name), frame.columns)}
            IN  IF row_idx \in 1..Len(frame.rows) /\ names # {}
                THEN written_cell(sheet.cells[rc], frame, row_idx, CHOOSE name \in names : TRUE,
                                  rc[2], end_col, styles)
                ELSE sheet.cells[rc]] ]

WriteRows ==
    /\ pc = "write"
    /\ ws' = write_rows(ws, enriched_df, col_mapping, data_start_row,
                        original_table_end_col, data_row_styles)
    /\ pc' = "size"
    /\ UNCHANGED <<original_table_end_col, col_mapping, col_idx, new_idx, next_col,
                   header_style, data_row_styles, col_widths>>
    /\ UNCHANGED <<header_row, df, enriched_df, temp_filename, status, failure, detail_list>>
    /\ UNCHANGED <<nm_vars, ext_vars, rq_vars, run_vars, en_vars, st_vars, fs_vars, ca_vars>>

\* auto_adjust_column_widths(ws, original_table_end_col + 1, next_col)
auto_adjust_column_widths(start_col, end_col, width) ==
    [c \in start_col..(end_col - 1) |-> width]

SizeColumns ==
    /\ pc = "size"
    /\ col_widths' = auto_adjust_column_widths(original_table_end_col + 1, next_col,
                                               NEW_COLUMN_WIDTH)
    /\ pc' = "save"
    /\ UNCHANGED <<ws, original_table_end_col, col_mapping, col_idx, new_idx, next_col,
                   header_style, data_row_styles>>
    /\ UNCHANGED <<header_row, df, enriched_df, temp_filename, status, failure, detail_list>>
    /\ UNCHANGED <<nm_vars, ext_vars, rq_vars, run_vars, en_vars, st_vars, fs_vars, ca_vars>>

\* wb.save(temp_filename); return temp_filename
SaveWorkbook ==
    /\ pc = "save"
    /\ temp_file' = "saved"
    /\ saved_ws' = ws
    /\ temp_filename' = "set"
    /\ pc' = "respond"
    /\ UNCHANGED <<header_row, df, enriched_df, status, failure, detail_list>>
    /\ UNCHANGED <<nm_vars, ext_vars, rq_vars, run_vars, en_vars, st_vars, rw_vars, ca_vars>>

RewriteStages == {"load", "map", "extend", "clear", "write", "size", "save"}

\* the except clause of lines 216-223 without the os.unlink
rewrite_except_keep_file(file) == file

\* the except clause of lines 216-223: the temporary file is removed when it
\* exists
rewrite_except(file) == IF file # "absent" THEN "absent" ELSE file

\* a step of the rewrite raises (load_workbook, a cell that cannot be written,
\* wb.save): the except clause runs and the exception leaves the function, so
\* the route's temp_filename stays None
RewriteRaises ==
    /\ pc \in RewriteStages
    /\ temp_file' = rewrite_except(temp_file)
    /\ saved_ws' = NoSheet
    /\ failure' = "rewrite_error"
    /\ pc' = "generic_except"
    /\ ws' = NoSheet
    /\ original_table_end_col' = 0
    /\ col_mapping' = NoMapping
    /\ col_idx' = 0
    /\ new_idx' = 0
    /\ next_col' = 0
    /\ header_style' = DefaultStyle
    /\ data_row_styles' = <<>>
    /\ col_widths' = <<>>
    /\ UNCHANGED <<header_row, df, enriched_df, temp_filename, status, detail_list>>
    /\ UNCHANGED <<nm_vars, ext_vars, rq_vars, run_vars, en_vars, st_vars, ca_vars>>

Next ==
    \/ ValidateFile
    \/ CheckSheet
    \/ DetectHeader
    \/ ReadSheet
    \/ Enrich
    \/ CreateTemp
    \/ LoadAndFindExtent
    \/ MapColumn
    \/ ExtendColumn
    \/ ClearRows
    \/ WriteRows
    \/ SizeColumns
    \/ SaveWorkbook
    \/ RewriteRaises
    \/ Respond
    \/ HandleHTTPException
    \/ HandleException

Spec == Init /\ [][Next]_vars

(***************************************************************************)
(* create_enriched_excel called again on the workbook it saved             *)
(***************************************************************************)
\* the cells of a row of a sheet, over the columns the sheet has
RowCells(sheet, row) == [c \in 1..sheet.max_column |-> CellAt(sheet, row, c)]

\* create_enriched_excel(saved content, enriched_df, sheet_name, header_row):
\* the saved workbook is the content of the second call, the frame and the
\* header row are those of the first; temp_file is the second call's file
RunAgain ==
    /\ pc = "done"
    /\ status = 200
    /\ run = 1
    /\ run' = 2
    /\ first_mapping' = col_mapping
    /\ first_header_cells' = RowCells(saved_ws, header_row_excel)
    /\ rq_file' = [rq_file EXCEPT !.ws = saved_ws]
    /\ pc' = "create"
    /\ status' = 0
    /\ temp_filename' = "None"
    /\ temp_file' = "absent"
    /\ saved_ws' = NoSheet
    /\ ws' = NoSheet
    /\ original_table_end_col' = 0
    /\ col_mapping' = NoMapping
    /\ col_idx' = 0
    /\ new_idx' = 0
    /\ next_col' = 0
    /\ header_style' = DefaultStyle
    /\ data_row_styles' = <<>>
    /\ col_widths' = <<>>
    /\ UNCHANGED <<rq_filename, rq_sheet_name, svc>>
    /\ UNCHANGED <<header_row, df, enriched_df, failure, detail_list>>
    /\ UNCHANGED <<nm_vars, ext_vars, en_vars, st_vars, ca_vars>>

\* uploads enriched without the remote service
TwInit == Init /\ svc = NoService

TwNext == Next \/ RunAgain

SpecTwice == TwInit /\ [][TwNext]_vars

(***************************************************************************)
(* apply_ai_enrichment followed step by step on bounded frames             *)
(***************************************************************************)
TRACTO == Str(<<"T","R","A","C","T","O">>)
DOLLY == Str(<<"D","O","L","L","Y">>)
MOD_2022 == Str(<<"2","0","2","2">>)

\* df.columns of the frames passed in
EnColumnsCat ==
    { <<TIPO_DE_UNIDAD, MOD>>,
      <<Tipo_de_Unidad, MOD>>,
      <<MOD, Str(<<"U","n","n","a","m","e","d",":"," ","1">>)>>,
      <<TIPO_DE_UNIDAD, Str(DANOS_MATERIALES_LIMITES)>> }

\* values of the first column: descriptions, an empty cell, null markers
EnReferenceValueCat ==
    { TRACTO, DOLLY, PyNaN, Str(<<"N","o","n","e">>), Str(<<" ">>) }

EnRowCat == { <<reference, MOD_2022>> : reference \in EnReferenceValueCat }

\* a call of the try body raising while the first row is processed
FaultCat ==
    {NoFault} \cup { [row |-> 1, call |-> call] :
                        call \in {"classify", "extract", "danos", "robo"} }

EnInit ==
    /\ \E columns \in EnColumnsCat, rows \in SeqsUpTo(EnRowCat, MaxDataRows) :
           en_df = [columns |-> columns, rows |-> rows]
    /\ en_svc \in ServiceCat
    /\ en_fault \in FaultCat
    /\ en_pc = "start"
    /\ en_enriched = NoFrame
    /\ en_reference = PyNone
    /\ en_row = 0
    /\ en_calls = NoCalls
    /\ en_available = <<>>
    /\ NmIdle
    /\ ExtIdle
    /\ RequestIdle
    /\ StIdle
    /\ CaIdle

\* lines 38-49: copy the frame, resolve the reference column or raise
EnResolve ==
    /\ en_pc = "start"
    /\ en_enriched' = df_copy(en_df)
    /\ LET reference == find_column_mapping(en_enriched'.columns, columna_referencia)
       IN  IF reference.ok
           THEN /\ en_reference' = reference.col
                /\ en_pc' = "columns"
                /\ UNCHANGED en_available
           ELSE /\ en_available' = en_enriched'.columns
                /\ en_pc' = "raised"
                /\ UNCHANGED en_reference
    /\ UNCHANGED <<en_df, en_svc, en_fault, en_row, en_calls>>
    /\ UNCHANGED <<nm_vars, ext_vars, rq_vars, rt_vars, rw_vars, fs_vars, run_vars, st_vars, ca_vars>>

\* lines 52-57
EnAddColumns ==
    /\ en_pc = "columns"
    /\ en_enriched' = add_new_columns(en_enriched, 1)
    /\ en_row' = 1
    /\ en_pc' = "rows"
    /\ UNCHANGED <<en_df, en_svc, en_fault, en_reference, en_calls, en_available>>
    /\ UNCHANGED <<nm_vars, ext_vars, rq_vars, rt_vars, rw_vars, fs_vars, run_vars, st_vars, ca_vars>>

\* one pass of the loop of lines 60-110; after the last row, line 112
EnRow ==
    /\ en_pc = "rows"
    /\ IF en_row <= Len(en_enriched.rows)
       THEN /\ en_enriched' = enrich_row_with(en_enriched, en_row, en_reference, en_svc,
                                              en_fault)
            /\ LET calls == row_calls(en_enriched, en_row, en_reference, en_svc, en_fault)
               IN  en_calls' = [classify |-> en_calls.classify + calls.classify,
                                generate |-> en_calls.generate + calls.generate]
            /\ en_row' = en_row + 1
            /\ UNCHANGED en_pc
       ELSE /\ en_pc' = "returned"
            /\ UNCHANGED <<en_enriched, en_calls, en_row>>
    /\ UNCHANGED <<en_df, en_svc, en_fault, en_reference, en_available>>
    /\ UNCHANGED <<nm_vars, ext_vars, rq_vars, rt_vars, rw_vars, fs_vars, run_vars, st_vars, ca_vars>>

EnNext ==
    \/ EnResolve
    \/ EnAddColumns
    \/ EnRow

SpecEnrich == EnInit /\ [][EnNext]_vars

(***************************************************************************)
(* copy_cell_style and apply_cell_style on style objects                   *)
(*                                                                         *)
(* A cell's style is four facets, each a reference to an object; st_heap   *)
(* gives every object its look.  Objects are numbered as they are made.    *)
(***************************************************************************)
MaxStyleCells == 3        \* cells of the sheet
MaxStyleCopies == 2       \* calls of copy_cell_style
MaxStyleMutations == 1    \* changes made to a facet object

Facets == {"font", "fill", "border", "alignment"}

StCells == 1..MaxStyleCells

FacetIndex(f) ==
    CASE f = "font" -> 1 [] f = "fill" -> 2 [] f = "border" -> 3 [] f = "alignment" -> 4

\* the object a cell's facet refers to before any apply_cell_style
OwnObject(c, f) == 4 * (c - 1) + FacetIndex(f)

\* no dictionary has been returned by copy_cell_style yet
NoStyle == [f \in Facets |-> 0]

StInit ==
    /\ st_cells = [c \in StCells |-> [f \in Facets |-> OwnObject(c, f)]]
    /\ st_heap = [o \in 1..(4 * MaxStyleCells) |-> ((o - 1) \div 4) + 1]
    /\ st_captured = NoStyle
    /\ st_allocated = 4 * MaxStyleCells
    /\ st_mutations = 0
    /\ NmIdle
    /\ ExtIdle
    /\ RequestIdle
    /\ EnIdle
    /\ CaIdle

\* copy_cell_style(source_cell): copy.copy of each facet, a new object with
\* the look of the source's (a cell always has the four facets)
StCopy ==
    /\ st_allocated + 4 <= 4 * (MaxStyleCells + MaxStyleCopies)
    /\ \E source_cell \in StCells :
           /\ st_captured' = [f \in Facets |-> st_allocated + FacetIndex(f)]
           /\ st_heap' = [o \in 1..(st_allocated + 4) |->
                             IF o <= st_allocated
                             THEN st_heap[o]
                             ELSE st_heap[st_cells[source_cell][
                                      CHOOSE f \in Facets : FacetIndex(f) = o - st_allocated]]]
    /\ st_allocated' = st_allocated + 4
    /\ UNCHANGED <<st_cells, st_mutations>>
    /\ UNCHANGED <<nm_vars, ext_vars, rq_vars, rt_vars, rw_vars, fs_vars, run_vars, en_vars, ca_vars>>

\* apply_cell_style(cell, style_dict): cell.font = style_dict['font'] and so
\* on: the cell's facets refer to the dictionary's objects
StApply ==
    /\ st_captured # NoStyle
    /\ \E cell \in StCells :
           st_cells' = [st_cells EXCEPT ![cell] = st_captured]
    /\ UNCHANGED <<st_heap, st_captured, st_allocated, st_mutations>>
    /\ UNCHANGED <<nm_vars, ext_vars, rq_vars, rt_vars, rw_vars, fs_vars, run_vars, en_vars, ca_vars>>

\* a facet object reached through a cell is changed in place
StMutate ==
    /\ st_mutations < MaxStyleMutations
    /\ \E cell \in StCells, f \in Facets :
           st_heap' = [st_heap EXCEPT ![st_cells[cell][f]] = 0]
    /\ st_mutations' = st_mutations + 1
    /\ UNCHANGED <<st_cells, st_captured, st_allocated>>
    /\ UNCHANGED <<nm_vars, ext_vars, rq_vars, rt_vars, rw_vars, fs_vars, run_vars, en_vars, ca_vars>>

StNext ==
    \/ StCopy
    \/ StApply
    \/ StMutate

SpecStyles == StInit /\ [][StNext]_vars

(***************************************************************************)
(* classify_vehicle and generate_insurance_values called on bounded inputs *)
(***************************************************************************)
CAMIONES == <<"C","A","M","I","O","N","E","S">>

CaDescriptionCat ==
    { <<"T","R","A","C","T","O">>,
      <<"D","O","L","L","Y">>,
      <<"t","a","n","q","u","e"," ","2","0","2","0">>,
      <<"S","e","m","i"," ","t","r","a","c","t","o">>,
      <<"K","E","N","W","O","R","T","H">>,
      <<"C","A","M","I","O","N">> }

\* available_types: the keys of the rule table passed in
CaTypesCat ==
    { <<TRACTOS, REMOLQUES>>, <<REMOLQUES, TRACTOS>>, <<TRACTOS>>, <<REMOLQUES>>,
      <<REMOLQUES, CAMIONES>> }

\* what the remote service does during the call
CaRemoteCat == {"unconfigured", "answers", "unexpected", "raises", "times_out"}

\* the text of the classification answer
CaAnswerCat(remote) ==
    CASE remote = "answers" -> { <<"T","R","A","C","T","O","S">>,
                                 <<" ","r","e","m","o","l","q","u","e","s">> }
      [] remote = "unexpected" -> { <<"C","A","M","I","O","N">>,
                                    <<"N","o"," ","s","e">> }
      [] OTHER -> { <<>> }

\* a timeout reaches the code as an exception of the client
ServiceWhen(remote, text) ==
    CASE remote = "unconfigured" -> NoService
      [] remote = "answers" ->
            [configured |-> TRUE, classify_raises |-> FALSE, classify_text |-> text,
             generate |-> "values"]
      [] remote = "unexpected" ->
            [configured |-> TRUE, classify_raises |-> FALSE, classify_text |-> text,
             generate |-> "malformed"]
      [] remote = "raises" ->
            [configured |-> TRUE, classify_raises |-> TRUE, classify_text |-> text,
             generate |-> "raise"]
      [] remote = "times_out" ->
            [configured |-> TRUE, classify_raises |-> TRUE, classify_text |-> text,
             generate |-> "timeout"]

CaInit ==
    /\ ca_description \in CaDescriptionCat
    /\ ca_types \in CaTypesCat
    /\ ca_vehicle_type \in {TRACTOS, REMOLQUES}
    /\ ca_remote \in CaRemoteCat
    /\ \E text \in CaAnswerCat(ca_remote) : ca_svc = ServiceWhen(ca_remote, text)
    /\ ca_pc = "ready"
    /\ ca_classification = <<>>
    /\ ca_values = NoValues
    /\ ca_raised = FALSE
    /\ NmIdle
    /\ ExtIdle
    /\ RequestIdle
    /\ EnIdle
    /\ StIdle

\* OpenAIService.classify_vehicle(vehicle_description, available_types)
CaClassify ==
    /\ ca_pc = "ready"
    /\ ca_raised' = escapes_wrapper(classify_try_raises(ca_svc))
    /\ ca_classification' = IF ca_raised'
                            THEN <<>>
                            ELSE classify_vehicle(ca_description, ca_types, ca_svc)
    /\ ca_pc' = "classified"
    /\ UNCHANGED <<ca_description, ca_types, ca_vehicle_type, ca_remote, ca_svc, ca_values>>
    /\ UNCHANGED <<nm_vars, ext_vars, rq_vars, rt_vars, rw_vars, fs_vars, run_vars, en_vars, st_vars>>

\* OpenAIService.generate_insurance_values(vehicle_info, coverage_type)
CaGenerate ==
    /\ ca_pc = "ready"
    /\ ca_raised' = escapes_wrapper(generate_try_raises(ca_svc))
    /\ \E coverage_type \in {"DANOS MATERIALES", "ROBO TOTAL"} :
           ca_values' = IF ca_raised'
                        THEN NoValues
                        ELSE generate_insurance_values(ca_vehicle_type, coverage_type, ca_svc)
    /\ ca_pc' = "generated"
    /\ UNCHANGED <<ca_description, ca_types, ca_vehicle_type, ca_remote, ca_svc,
                   ca_classification>>
    /\ UNCHANGED <<nm_vars, ext_vars, rq_vars, rt_vars, rw_vars, fs_vars, run_vars, en_vars, st_vars>>

CaNext ==
    \/ CaClassify
    \/ CaGenerate

SpecCalls == CaInit /\ [][CaNext]_vars

(***************************************************************************)
(* C1  detect_header_row                                                   *)
(***************************************************************************)
SpaceUnderscoreForms(target) ==
    {target, Replace(target, " ", "_"), Replace(target, "_", " ")}

\* the label is the target or a case/space/underscore variant of it
LabelIsVariant(label, target) ==
    \/ label = Str(target)
    \/ \E v \in SpaceUnderscoreForms(target) : Upper(Strip(PyStr(label))) = Upper(v)

\* the label holds the target, or a space/underscore form of it, somewhere in
\* its trimmed text, case-insensitively
LabelCarriesTarget(label, target) ==
    \/ label = Str(target)
    \/ \E v \in SpaceUnderscoreForms(target) :
           Contains(Upper(v), Upper(Strip(PyStr(label))))

NmRowHasVariant(r) ==
    /\ r + 1 <= Len(nm_sheet)
    /\ \E i \in 1..Len(nm_sheet[r + 1]) : LabelIsVariant(nm_sheet[r + 1][i], nm_target)

NmRowCarriesTarget(r) ==
    /\ r + 1 <= Len(nm_sheet)
    /\ \E i \in 1..Len(nm_sheet[r + 1]) : LabelCarriesTarget(nm_sheet[r + 1][i], nm_target)

\* C1 as stated: when the target or a variant of it is one of the labels of
\* candidate row r < K and of no candidate row before r, detect_header_row
\* returns r; when no candidate row matches, DEFAULT_HEADER_ROW.
C1_AsStated ==
    nm_pc = "detected" =>
        /\ \A r \in 0..(nm_depth - 1) :
               (NmRowHasVariant(r) /\ \A q \in 0..(r - 1) : ~NmRowHasVariant(q))
                   => nm_header = r
        /\ (\A r \in 0..(nm_depth - 1) : ~NmRowCarriesTarget(r))
               => nm_header = DEFAULT_HEADER_ROW

\* C1 amended: detect_header_row returns the first candidate row r < K one of
\* whose labels equals the target or contains it (or its space/underscore
\* form) in its trimmed text, case-insensitively; when no candidate row has
\* such a label it returns DEFAULT_HEADER_ROW.
C1_FirstCarryingRow ==
    nm_pc = "detected" =>
        /\ \A r \in 0..(nm_depth - 1) :
               (NmRowCarriesTarget(r) /\ \A q \in 0..(r - 1) : ~NmRowCarriesTarget(q))
                   => nm_header = r
        /\ (\A r \in 0..(nm_depth - 1) : ~NmRowCarriesTarget(r))
               => nm_header = DEFAULT_HEADER_ROW

\* a header found below a title row through its underscore variant
C1_Witness ==
    /\ nm_pc = "detected"
    /\ nm_header = 1
    /\ nm_depth > 1
    /\ ~NmRowCarriesTarget(0)
    /\ NmRowHasVariant(1)
    /\ \A i \in 1..Len(nm_sheet[2]) : nm_sheet[2][i] # Str(nm_target)

(***************************************************************************)
(* C2, C3  find_column_mapping                                             *)
(***************************************************************************)
IsExact(label, target) == label = Str(target)

IsCaseTrimEqual(label, target) == Strip(Upper(PyStr(label))) = Strip(Upper(target))

HasEveryToken(label, target) ==
    \A w \in {Split(Upper(target))[k] : k \in 1..Len(Split(Upper(target)))} :
        Contains(w, Upper(PyStr(label)))

HasTipoAndUnidad(label) ==
    /\ Contains(<<"T","I","P","O">>, Upper(PyStr(label)))
    /\ Contains(<<"U","N","I","D","A","D">>, Upper(PyStr(label)))

\* the strategy of highest priority (1 highest) the label satisfies, 5 when none
StrategyOf(label, target) ==
    CASE IsExact(label, target) -> 1
      [] IsCaseTrimEqual(label, target) -> 2
      [] HasEveryToken(label, target) -> 3
      [] HasTipoAndUnidad(label) -> 4
      [] OTHER -> 5

NmBestStrategy ==
    LET ranks == {StrategyOf(nm_columns[i], nm_target) : i \in 1..Len(nm_columns)}
    IN  CHOOSE k \in ranks : \A j \in ranks : k <= j

\* the first position whose label satisfies strategy k itself (a label may
\* satisfy several strategies)
SatisfiesStrategy(label, target, k) ==
    CASE k = 1 -> IsExact(label, target)
      [] k = 2 -> IsCaseTrimEqual(label, target)
      [] k = 3 -> HasEveryToken(label, target)
      [] k = 4 -> HasTipoAndUnidad(label)
      [] OTHER -> FALSE

NmFirstSatisfying(k) ==
    LET hits == {i \in 1..Len(nm_columns) : SatisfiesStrategy(nm_columns[i], nm_target, k)}
    IN  CHOOSE i \in hits : \A j \in hits : i <= j

\* C2: the returned label is the first label satisfying the highest-priority
\* strategy that any label of the whole list satisfies, whatever the column
\* order; a label matched only by a lower-priority strategy is never returned
\* when some label matches a higher-priority one.
C2_StrategyPriority ==
    (nm_pc = "resolved" /\ NmBestStrategy < 5) =>
        /\ nm_found.ok
        /\ nm_found.col = nm_columns[NmFirstSatisfying(NmBestStrategy)]
        /\ StrategyOf(nm_found.col, nm_target) = NmBestStrategy

\* a label of a lower-priority strategy stands before the one returned
C2_Witness ==
    /\ nm_pc = "resolved"
    /\ nm_found.ok
    /\ Len(nm_columns) = 2
    /\ nm_found.col = nm_columns[2]
    /\ StrategyOf(nm_columns[1], nm_target) \in {3, 4}
    /\ StrategyOf(nm_columns[2], nm_target) \in {1, 2}

TipoDeUnidadVariant == Str(<<"T","i","p","o","_","d","e","_","U","n","i","d","a","d">>)

\* C3: with target "TIPO DE UNIDAD", the label "Tipo_de_Unidad" is returned
\* when it is the only label matching a strategy, and the resolver fails,
\* carrying the list of available labels, exactly when no label matches any
\* of the four strategies.
C3_VariantOrNotFound ==
    (nm_pc = "resolved" /\ nm_target = TARGET_COLUMN) =>
        /\ ( /\ \E i \in 1..Len(nm_columns) : nm_columns[i] = TipoDeUnidadVariant
             /\ \A i \in 1..Len(nm_columns) :
                    nm_columns[i] # TipoDeUnidadVariant
                        => StrategyOf(nm_columns[i], nm_target) = 5 )
               => (nm_found.ok /\ nm_found.col = TipoDeUnidadVariant)
        /\ ~nm_found.ok <=>
               \A i \in 1..Len(nm_columns) : StrategyOf(nm_columns[i], nm_target) = 5
        /\ ~nm_found.ok => nm_found.available = nm_columns

\* "Tipo_de_Unidad" resolved beside a label that matches nothing
C3_Witness ==
    /\ nm_pc = "resolved"
    /\ nm_target = TARGET_COLUMN
    /\ Len(nm_columns) = 2
    /\ nm_columns[2] = TipoDeUnidadVariant
    /\ StrategyOf(nm_columns[1], nm_target) = 5
    /\ nm_found.ok
    /\ nm_found.col = TipoDeUnidadVariant

(***************************************************************************)
(* C4  find_original_table_end                                             *)
(***************************************************************************)
\* the header cell shows non-blank text: it is not empty and the text of its
\* value has a non-whitespace character
HoldsNonBlankText(value) == value # PyNone /\ Strip(PyStr(value)) # <<>>

ExtNonBlankColumns ==
    {c \in 1..ext_ws.max_column : HoldsNonBlankText(CellAt(ext_ws, 1, c).value)}

\* C4: whenever some header cell holds non-blank text, the result is the
\* largest column index in 1..maxColumn whose header cell holds non-blank
\* text, blanks between non-blank header cells notwithstanding.
C4_LargestNonBlankColumn ==
    (ext_pc = "done" /\ ExtNonBlankColumns # {}) =>
        /\ ext_end \in ExtNonBlankColumns
        /\ \A c \in ExtNonBlankColumns : c <= ext_end

(***************************************************************************)
(* C5 .. C7  the worksheet during create_enriched_excel                    *)
(***************************************************************************)
\* the rewrite holds a loaded worksheet
RewriteLive ==
    /\ pc \in {"map", "extend", "clear", "write", "size", "save", "respond", "done"}
    /\ ws.max_row > 0

MappedBeyondExtent(mapping) ==
    {name \in DOMAIN mapping : mapping[name] > original_table_end_col}

\* a step of the map and extend loops keeps every entry and gives an
\* inserted column the next index after the extent
MappingStepAppends ==
    (pc \in {"map", "extend"} /\ pc' \in {"map", "extend", "clear"}) =>
        /\ \A name \in DOMAIN col_mapping :
               /\ name \in DOMAIN col_mapping'
               /\ col_mapping'[name] = col_mapping[name]
        /\ pc = "extend" =>
               \A name \in (DOMAIN col_mapping') \ (DOMAIN col_mapping) :
                   /\ name = columnas_a_agregar[new_idx]
                   /\ col_mapping'[name] = original_table_end_col + 1
                          + Cardinality(MappedBeyondExtent(col_mapping))

\* C5: while the mapping is built, an entry once added keeps its index and
\* is never removed, and every column inserted gets the next index after the
\* original table extent: extent + 1, extent + 2, ... in configured order.
C5_MappingAppendOnly == [][MappingStepAppends]_vars

\* C6 as stated: during a rewrite every cell of rows 1..header_row has the
\* value and the style it had in the uploaded sheet.
C6_NoCellAtOrAboveHeaderMutated ==
    RewriteLive =>
        \A rc \in DOMAIN ws.cells :
            rc[1] <= header_row_excel => ws.cells[rc] = CellAt(rq_file.ws, rc[1], rc[2])

\* C6: during a rewrite every cell above the header row, and every header
\* cell in columns 1..extent, has the value and the style it had in the
\* uploaded sheet; the only cells of the header row that change are those of
\* the inserted columns, to the right of the extent.
C6_AboveHeaderAndOriginalHeadersKept ==
    RewriteLive =>
        \A rc \in DOMAIN ws.cells :
            (rc[1] < header_row_excel
                \/ (rc[1] = header_row_excel /\ rc[2] <= original_table_end_col)) =>
                ws.cells[rc] = CellAt(rq_file.ws, rc[1], rc[2])

\* a finished rewrite of a sheet with a title row above the header, in which
\* a column was inserted and the data rows were cleared and written
C6_Witness ==
    /\ pc = "done"
    /\ status = 200
    /\ header_row_excel > 1
    /\ ws.max_row > header_row_excel
    /\ CellAt(ws, header_row_excel, original_table_end_col + 1).value
           = Str(columnas_a_agregar[1])
    /\ CellAt(ws, header_row_excel, original_table_end_col + 1)
           # CellAt(rq_file.ws, header_row_excel, original_table_end_col + 1)

\* C7: during a rewrite every cell of the uploaded sheet that held a
\* non-blank value in a column to the right of the table extent still holds
\* that value.
C7_DataBeyondExtentKept ==
    RewriteLive =>
        \A rc \in DOMAIN rq_file.ws.cells :
            (rc[2] > original_table_end_col
                /\ HoldsNonBlankText(rq_file.ws.cells[rc].value)) =>
                CellAt(ws, rc[1], rc[2]).value = rq_file.ws.cells[rc].value

(***************************************************************************)
(* C8  the stages of create_enriched_excel                                 *)
(***************************************************************************)
StageAfter(stage) ==
    CASE stage = "load" -> "map"
      [] stage = "map" -> "extend"
      [] stage = "extend" -> "clear"
      [] stage = "clear" -> "write"
      [] stage = "write" -> "size"
      [] stage = "size" -> "save"
      [] stage = "save" -> "respond"

\* a step taken inside the rewrite
StageStepInOrder ==
    pc \in RewriteStages =>
        /\ pc' \in {pc, StageAfter(pc), "generic_except"}
        /\ pc' = "generic_except" =>
               /\ temp_file' = "absent"
               /\ saved_ws' = NoSheet
               /\ temp_filename' = "None"
        /\ temp_filename' = "set" => (pc = "save" /\ temp_file' = "saved")

C9_TempFileRemovedOnEveryExit ==
    pc = "done" => temp_file = "absent"

InputFailures ==
    {"unsupported_file_type", "sheet_not_found", "reference_column_not_found"}

\* C10: a request that ends on an unsupported extension, on a sheet name the
\* file does not have, or on a reference column that cannot be resolved ends
\* with a 4xx status.
C10_InputErrorsAre4xx ==
    (pc = "done" /\ failure \in InputFailures) => status \in 400..499

(***************************************************************************)
(* C11 .. C15  apply_ai_enrichment                                         *)
(***************************************************************************)
Blank == Str(<<>>)

\* the value of enrichment column k in row i of the enriched frame
EnCell(i, k) == get_at(en_enriched, i, Str(columnas_a_agregar[k]))

EnRowIsBlank(i) == \A k \in 1..Len(columnas_a_agregar) : EnCell(i, k) = Blank

EnRowIsFilled(i) == \A k \in 1..Len(columnas_a_agregar) : EnCell(i, k).s # <<>>

\* the reference value of row i of the frame passed in
EnReferenceValue(i) == get_at(en_df, i, en_reference)

\* an empty cell, blank text, or the text form of a missing value
IsBlankOrNullMarker(v) ==
    \/ v \in {PyNone, PyNaN}
    \/ v.t = "str" /\ Lower(Strip(v.s)) \in {<<>>, <<"n","a","n">>, <<"n","o","n","e">>}

\* row i is one whose processing raised
EnRowFailed(i) == en_fault.row = i /\ ~IsBlankOrNullMarker(EnReferenceValue(i))

EnRowDone(i) == en_pc \in {"rows", "returned"} /\ i < en_row

\* C11: when no column of the frame resolves to the reference column, the
\* enrichment ends with the error listing the frame's columns, before the
\* row loop: no classifier or generator call was made, and the frame has the
\* columns it came with.
C11_UnresolvedAbortsBeforeRows ==
    (en_pc # "start" /\ ~find_column_mapping(en_df.columns, columna_referencia).ok) =>
        /\ en_pc = "raised"
        /\ en_available = en_df.columns
        /\ en_calls = NoCalls
        /\ en_row = 0
        /\ en_enriched = en_df

\* a frame with rows and no reference column, after the call
C11_Witness ==
    /\ en_pc = "raised"
    /\ Len(en_df.rows) > 0
    /\ en_svc.configured

EnUnknownCategory ==
    /\ en_svc.configured
    /\ ~en_svc.classify_raises
    /\ ~InSeq(Upper(Strip(en_svc.classify_text)), available_types)

\* what the generator gives for a vehicle type under the call's service
EnValuesFor(ty) ==
    IF en_svc.configured /\ en_svc.generate = "values"
    THEN RemoteValues
    ELSE _get_fallback_values(ty)

\* C14: when the classifier answers with an unknown category the call
\* returns, and every row that is processed carries the values of TRACTOS,
\* whatever its description.
C14_UnknownCategoryIsTractos ==
    (EnUnknownCategory /\ en_pc # "start") =>
        /\ en_pc # "raised" \/ en_row = 0
        /\ \A i \in 1..Len(en_df.rows) :
               (en_pc = "returned" /\ ~EnRowFailed(i)
                   /\ ~IsBlankOrNullMarker(EnReferenceValue(i))) =>
                   /\ EnCell(i, 1) = Str(EnValuesFor(TRACTOS).LIMITES)
                   /\ EnCell(i, 2) = Str(EnValuesFor(TRACTOS).DEDUCIBLES)
                   /\ EnCell(i, 3) = Str(EnValuesFor(TRACTOS).LIMITES)
                   /\ EnCell(i, 4) = Str(EnValuesFor(TRACTOS).DEDUCIBLES)

\* a trailer row enriched under a classifier that answers "CAMION"
C14_Witness ==
    /\ en_pc = "returned"
    /\ EnUnknownCategory
    /\ en_fault = NoFault
    /\ Len(en_df.rows) >= 1
    /\ EnReferenceValue(1) = DOLLY
    /\ EnCell(1, 1) = Str(<<"$","U","S"," ","1","2","0",",","0","0","0">>)

\* C15: with the value generator unavailable, the row {TIPO DE UNIDAD:
\* "TRACTO", MOD: "2022"} comes out with the rule table's DANOS MATERIALES
\* values: LIMITES "VALOR CONVENIDO", DEDUCIBLES "10 %".
C15_RuleTableValuesWritten ==
    (en_pc = "returned" /\ ~en_svc.configured /\ en_fault = NoFault
        /\ en_df.columns = <<TIPO_DE_UNIDAD, MOD>>) =>
        \A i \in 1..Len(en_df.rows) :
            en_df.rows[i] = <<TRACTO, MOD_2022>> =>
                /\ EnCell(i, 1) = Str(coberturas_valores(TRACTOS, "DANOS MATERIALES").LIMITES)
                /\ EnCell(i, 2) = Str(coberturas_valores(TRACTOS, "DANOS MATERIALES").DEDUCIBLES)

(***************************************************************************)
(* C16  the rewrite applied twice                                          *)
(***************************************************************************)
\* the second call has built its mapping and written its headers
SecondRunMapped ==
    /\ run = 2
    /\ pc \in {"clear", "write", "size", "save", "respond", "done"}
    /\ ws.max_row > 0

\* C16: in a second call on the saved output of the first, with the same
\* frame, the mapping built is the mapping of the first call, no column is
\* inserted (the sheet is no wider), and every cell of the header row is the
\* cell the first call saved.
C16_SecondRunKeepsMapping ==
    SecondRunMapped =>
        /\ col_mapping = first_mapping
        /\ ws.max_column = Len(first_header_cells)
        /\ next_col = original_table_end_col + 1
        /\ \A c \in 1..(ws.max_column + Len(columnas_a_agregar)) :
               CellAt(ws, header_row_excel, c) =
                   IF c <= Len(first_header_cells)
                   THEN first_header_cells[c]
                   ELSE EmptyCell

\* a second call finished on a sheet to which the first call added columns
C16_Witness ==
    /\ run = 2
    /\ pc = "done"
    /\ status = 200
    /\ Str(columnas_a_agregar[1]) \in {first_header_cells[c].value :
                                          c \in 1..Len(first_header_cells)}
    /\ Len(enriched_df.rows) > 0
    /\ col_mapping = first_mapping

(***************************************************************************)
(* C17  a table with a header row and no data rows                         *)
(***************************************************************************)
\* the uploaded sheet ends at the detected header row
ZeroRowTable == header_row >= 0 /\ rq_file.ws.max_row = header_row_excel

ClearsOriginalColumnsOnly ==
    (pc = "clear" /\ pc' = "write") =>
        \A rc \in DOMAIN ws.cells :
            IF rc[1] \in data_start_row..ws.max_row /\ rc[2] \in 1..original_table_end_col
            THEN ws'.cells[rc].value = PyNone
            ELSE ws'.cells[rc].value = ws.cells[rc].value

\* C18: the clearing step, taken before any enriched value is written, nulls
\* every cell of rows data_start_row..maxRow in columns 1..original extent,
\* and only those.
C18_ClearsUpToExtentOnly == [][ClearsOriginalColumnsOnly]_vars

(***************************************************************************)
(* C19  the styles of the inserted cells                                   *)
(***************************************************************************)
\* the rewrite has written its rows
RowsWritten ==
    /\ run = 1
    /\ pc \in {"size", "save", "respond", "done"}
    /\ ws.max_row > 0

InsertedColumns == (original_table_end_col + 1)..(next_col - 1)

WrittenRows == data_start_row..(data_start_row + Len(enriched_df.rows) - 1)

\* C19 as stated: every inserted data cell has the style the uploaded sheet
\* has in the same row at the last original column.
C19_RowOwnStyle ==
    RowsWritten =>
        \A c \in InsertedColumns : \A r \in WrittenRows :
            CellAt(ws, r, c).style = CellAt(rq_file.ws, r, original_table_end_col).style

\* C19: every inserted header cell has the style of the uploaded header cell
\* at the last original column, and every inserted data cell, in whichever
\* row, has the style the uploaded sheet has in the first data row at the
\* last original column.
C19_FirstDataRowStyle ==
    RowsWritten =>
        \A c \in InsertedColumns :
            /\ CellAt(ws, header_row_excel, c).style
                   = CellAt(rq_file.ws, header_row_excel, original_table_end_col).style
            /\ \A r \in WrittenRows :
                   CellAt(ws, r, c).style
                       = CellAt(rq_file.ws, data_start_row, original_table_end_col).style

\* two data rows written, the second one's inserted cells styled as the first
\* data row's last original cell
C19_Witness ==
    /\ RowsWritten
    /\ pc = "done"
    /\ Len(enriched_df.rows) = 2
    /\ InsertedColumns # {}
    /\ CellAt(ws, data_start_row + 1, original_table_end_col + 1).style
           = <<data_start_row, original_table_end_col>>
    /\ CellAt(rq_file.ws, data_start_row + 1, original_table_end_col).style
           = <<data_start_row + 1, original_table_end_col>>

(***************************************************************************)
(* C20  style objects                                                      *)
(***************************************************************************)
\* C20: no two cells refer to the same facet object, and no cell refers to
\* an object of the captured style.
C20_NoSharedStyleObject ==
    /\ \A c1 \in StCells, c2 \in StCells, f \in Facets :
           c1 # c2 => st_cells[c1][f] # st_cells[c2][f]
    /\ st_captured # NoStyle =>
           \A c \in StCells, f \in Facets : st_cells[c][f] # st_captured[f]

(***************************************************************************)
(* C21  row identity from the uploaded sheet to the saved sheet            *)
(***************************************************************************)
\* the sheet column of the reference column of the frame read from the upload
ReferenceSheetColumn ==
    IndexOf(find_column_mapping(df.columns, columna_referencia).col, df.columns)

\* the uploaded sheet's value in the reference column of physical row r
UploadedReferenceValue(r) == CellAt(rq_file.ws, r, ReferenceSheetColumn).value

\* what enrichment column k holds for a row whose reference cell holds v
EnrichmentFor(v, k) ==
    LET vehicle_description == Strip(PyStr(pandas_value(v)))
        coverage_type == classify_vehicle(vehicle_description, available_types, svc)
        values == generate_insurance_values(coverage_type,
                      IF k <= 2 THEN "DANOS MATERIALES" ELSE "ROBO TOTAL", svc)
    IN  IF skipped_description(vehicle_description)
        THEN Blank
        ELSE IF k \in {1, 3} THEN Str(values.LIMITES) ELSE Str(values.DEDUCIBLES)

\* C21: once the rewrite has written its rows, for every data row i of the
\* frame (counted from 0) and every enrichment column, the cell of physical
\* row header_row + 2 + i in that column holds the enrichment value computed
\* from the reference value the uploaded sheet has in that same physical row.
C21_RowIdentityPreserved ==
    RowsWritten =>
        \A i \in 0..(Len(df.rows) - 1) : \A k \in 1..Len(columnas_a_agregar) :
            CellAt(ws, header_row + 2 + i, col_mapping[columnas_a_agregar[k]]).value
                = EnrichmentFor(UploadedReferenceValue(header_row + 2 + i), k)

\* a tractor above a trailer below a title row: each row carries the values
\* of its own category
C21_Witness ==
    /\ RowsWritten
    /\ pc = "done"
    /\ header_row = 1
    /\ Len(df.rows) = 2
    /\ UploadedReferenceValue(3) = TRACTO
    /\ UploadedReferenceValue(4) = DOLLY
    /\ CellAt(ws, 3, col_mapping[columnas_a_agregar[1]]).value
           = Str(_get_fallback_values(TRACTOS).LIMITES)
    /\ CellAt(ws, 4, col_mapping[columnas_a_agregar[1]]).value
           = Str(_get_fallback_values(REMOLQUES).LIMITES)

(***************************************************************************)
(* C22  missing values in the writing step                                 *)
(***************************************************************************)
\* pd.isna(value)
IsMissing(value) == value \in {PyNaN, PyNone}

\* the value is NaN itself or the text of a missing value
IsNullMarkerText(value) ==
    \/ value = PyNaN
    \/ /\ value.t = "str"
       /\ Lower(Strip(value.s)) \in { <<"n","a","n">>, <<"n","o","n","e">>, <<"n","u","l","l">> }

\* the columns the write loop writes: mapped, and a column of the frame
WrittenNames == {name \in DOMAIN col_mapping : InSeq(Str(name), enriched_df.columns)}

\* C22: once the rewrite has written its rows, for every row of the enriched
\* frame and every mapped column of the frame, the cell written holds the
\* empty string when the frame's value is missing (NaN or None) and the
\* frame's value otherwise, and it never holds NaN or the text "NaN", "None"
\* or "null".
C22_MissingWrittenEmpty ==
    RowsWritten =>
        \A i \in 1..Len(enriched_df.rows) : \A name \in WrittenNames :
            LET value == get_at(enriched_df, i, Str(name))
                cell == CellAt(ws, data_start_row + i - 1, col_mapping[name])
            IN  /\ cell.value = IF IsMissing(value) THEN Blank ELSE value
                /\ ~IsNullMarkerText(cell.value)

\* a row whose second column was empty in the upload, written back empty
\* beside its enrichment values
C22_Witness ==
    /\ RowsWritten
    /\ pc = "done"
    /\ Len(enriched_df.rows) >= 1
    /\ PyStr(MOD) \in WrittenNames
    /\ col_mapping[PyStr(MOD)] = 2
    /\ CellAt(rq_file.ws, data_start_row, 2).value = PyNone
    /\ get_at(enriched_df, 1, MOD) = PyNaN
    /\ CellAt(ws, data_start_row, 2).value = Blank
    /\ CellAt(ws, data_start_row, col_mapping[columnas_a_agregar[1]]).value # Blank

(***************************************************************************)
(* C23  the wrappers of the remote calls                                   *)
(***************************************************************************)
\* the remote service gives no usable answer
CaRemoteFails == ca_remote \in {"unconfigured", "raises", "times_out", "unexpected"}

\* C23 as stated: no call ends in an exception; whenever the remote service
\* is unconfigured, raises, times out or answers malformed,
\* generate_insurance_values returns the static default of the vehicle's
\* category and classify_vehicle returns the keyword-based classification.
C23_AlwaysKeywordFallback ==
    /\ ~ca_raised
    /\ (ca_pc = "generated" /\ CaRemoteFails) =>
           ca_values = _get_fallback_values(ca_vehicle_type)
    /\ (ca_pc = "classified" /\ CaRemoteFails) =>
           ca_classification = _fallback_classification(ca_description, ca_types)

\* C23: no call ends in an exception; whenever the remote service is
\* unconfigured, raises, times out or answers malformed,
\* generate_insurance_values returns the static default of the vehicle's
\* category; classify_vehicle returns the keyword-based classification when
\* the service is unconfigured, raises or times out, and TRACTOS, whatever
\* the description, when the service answers with a text that is not one of
\* the known categories.
C23_FallbackOrDefaultCategory ==
    /\ ~ca_raised
    /\ (ca_pc = "generated" /\ CaRemoteFails) =>
           ca_values = _get_fallback_values(ca_vehicle_type)
    /\ (ca_pc = "classified" /\ ca_remote \in {"unconfigured", "raises", "times_out"}) =>
           ca_classification = _fallback_classification(ca_description, ca_types)
    /\ (ca_pc = "classified" /\ ca_remote = "unexpected"
           /\ ~InSeq(Upper(Strip(ca_svc.classify_text)), ca_types)) =>
           ca_classification = TRACTOS

\* a trailer classified by its keyword while the remote call times out
C23_Witness ==
    /\ ca_pc = "classified"
    /\ ca_remote = "times_out"
    /\ ca_description = <<"D","O","L","L","Y">>
    /\ ca_classification = REMOLQUES
    /\ ~ca_raised

(***************************************************************************)
(* C24  the original data across the clear-then-write sequence             *)
(***************************************************************************)
\* the value after the rewrite is the value before it, an empty cell staying
\* empty (None or the empty string)
ValueKept(before, after) ==
    IF before = PyNone THEN after \in {PyNone, Blank} ELSE after = before

\* C24: once the rewrite has written its rows, for every row of the enriched
\* frame and every column within the original table extent, the cell of that
\* data row holds the value it held in the uploaded sheet, whatever the
\* column's header (blank, duplicated, or with surrounding whitespace).
C24_OriginalDataKept ==
    RowsWritten =>
        \A r \in WrittenRows : \A c \in 1..original_table_end_col :
            ValueKept(CellAt(rq_file.ws, r, c).value, CellAt(ws, r, c).value)

(***************************************************************************)
(* C25  the category classify_vehicle returns                              *)
(***************************************************************************)
\* C25: for every description and every non-empty list of known categories,
\* whichever path classify_vehicle takes (remote answer, default for an
\* unexpected answer, keyword fallback), the category it returns is one of
\* the known categories passed in.
C25_ClassificationIsKnown ==
    ca_pc = "classified" => InSeq(ca_classification, ca_types)

(***************************************************************************)
(* C26  detect_header_row against find_column_mapping                      *)
(***************************************************************************)
\* detect_header_row returned its row because a label of the row matched,
\* not as the default
NmDetectedByMatch ==
    /\ nm_header < nm_depth
    /\ header_candidate_matches(nm_sheet, nm_header, nm_target)

\* C26: whenever detect_header_row returns a row because one of its labels
\* matched the target or a variant of it, find_column_mapping on the labels
\* of that row with the same target succeeds and returns a label of the row.
C26_DetectedRowResolves ==
    (nm_pc = "resolved_detected" /\ NmDetectedByMatch) =>
        /\ nm_found.ok
        /\ InSeq(nm_found.col, nm_sheet[nm_header + 1])

====
